---- MODULE Spec2Model ----
(***************************************************************************)
(* Verification model of the medical-telegram-warehouse pipeline:          *)
(*   - the Dagster job graph of src/pipeline.py             (SpecJob)      *)
(*   - the Telegram scraper of src/src/scraper.py           (SpecScrape)   *)
(*   - the raw loader of src/src/load_to_postgres.py        (SpecLoad)     *)
(*   - the image categorisation of ai_agent/detection.py and               *)
(*     src/src/yolo_detect.py                               (SpecCat)      *)
(*   - the detection step, process_all_images of the same two files, with  *)
(*     the OCR helper of ai_agent/ocr.py and src/src/ocr.py (SpecDetect)   *)
(*   - the price and product-term extraction of ai_agent/transform.py and  *)
(*     src/src/pipeline/transform.py                        (SpecText)     *)
(*   - the enrichment stage of the job (src/src/yolo_detect.py main and    *)
(*     src/src/load_yolo_results.py) with the price loaders of             *)
(*     src/src/load_price_results.py and ai_agent/loaders.py (SpecEnrich)  *)
(*   - the threshold alerter of src/src/alerts.py           (SpecAlert)    *)
(* Each specification moves its own group of variables and leaves the      *)
(* other groups at their initial values.                                   *)
(***************************************************************************)
EXTENDS Integers, Sequences, FiniteSets, TLC

VARIABLES
    \* ---- job graph (src/pipeline.py)
    runId,          \* number of the current run of medical_telegram_warehouse_job
    runStatus,      \* Dagster run status
    opState,        \* op name -> step status
    cmdIdx,         \* op name -> index of the command the op is running (0: none)
    startedWith,    \* history: op name -> opState as it was when the op started
    hookLog,        \* history: the failure events handed to notify_on_failure
    \* ---- image categorisation (ai_agent/detection.py, src/src/yolo_detect.py)
    detections,     \* the detection list of the image at hand
    catImpl,        \* which of the two ImageDetector classes is in use
    catOut,         \* what categorize_image returned for it (NoResult: not called yet)
    \* ---- data lake, shared by the scraper and the raw loader
    today,          \* the date datetime.now() gives
    lake,           \* the partition files under data/raw/telegram_messages
    \* ---- scraper (src/src/scraper.py)
    sPc,            \* where scrape_all_channels / scrape_channel stands
    chIdx,          \* index in CHANNELS of the channel the for loop is at
    messages_data,  \* scrape_channel's accumulator
    pos,            \* how many messages iter_messages has yielded in this call
    attempt,        \* how many times scrape_channel was entered for this channel
    pendingWait,    \* e.seconds of the FloodWaitError being handled (0: none)
    retval,         \* what scrape_channel returned
    scraping_summary, \* the summary scrape_all_channels builds
    floods,         \* history: FloodWaitErrors raised so far in this run
    chFloods,       \* history: those scrape_channel's handler caught for this channel
    owedSeconds,    \* history: the seconds those asked for
    sleptSeconds,   \* history: the seconds the handler has slept
    kept,           \* history: the messages this attempt's iterator gave and the loop kept
    interrupted,    \* history: what the accumulator held when the last FloodWaitError came
    permErr,        \* history: channels whose fetch raised ChannelPrivateError
    absorbed,       \* history: FloodWaitErrors caught inside the per-message body
    \* ---- raw loader (src/src/load_to_postgres.py)
    lPc,            \* where PostgreSQLLoader.run stands
    tbl,            \* raw.telegram_messages as committed: what other connections see
    messages,       \* what load_json_files returned
    loadResult,     \* how the last run of the loader ended
    loads,          \* number of loader runs started (stands for CURRENT_TIMESTAMP)
    saves,          \* number of partition files written for the loader to read
    atStart,        \* history: loadResult, messages and tbl when the run under way began
    reloaded,       \* history: the last run succeeded on the batch of a successful run
                    \*          right before it
    readerView,     \* history: what a reader last saw during the run under way
    \* ---- detection step (process_all_images of both ImageDetector classes)
    dImpl,          \* which of the two ImageDetector classes runs
    ocrLibs,        \* pytesseract and PIL can be imported
    image_files,    \* the (channel, image) files found under data/raw/images
    dPc,            \* where process_all_images stands
    fileIdx,        \* index in image_files of the image the for loop is at
    curDets,        \* dets: what detect_objects returned for it
    ocr_texts,      \* the OCR texts collected for its boxes
    results,        \* the result list process_all_images builds
    ocrCall,        \* history: the last call of extract_text_from_region for this
                    \*          image, and what came of it
    \* ---- text extraction (ai_agent/transform.py, src/src/pipeline/transform.py)
    record,         \* the row at hand: its message_text and ocr_text
    tPc,            \* where the extraction of the row stands
    parsed,         \* what parse_text_record returned for it
    recs,           \* the records process_yolo_ocr_file keeps
    rerun,          \* what extract_prices returned for the tokens put together
    \* ---- enrichment stage, enrichment loaders and threshold alerter
    eRun,           \* number of the run of the enrichment stage
    eCmd,           \* index of the stage's command that runs next (0: stage not running)
    stageResult,    \* how the last run of the stage ended
    csv,            \* data/processed/yolo_detections.csv (exists: whether it is there)
    produced,       \* history: what process_all_images returned in the last run
    det_tbl,        \* raw.yolo_detections as committed
    price_tbl,      \* raw.price_extractions as committed
    lastPriceLoad,  \* history: the last run of a price loader
    clock,          \* the time NOW() gives, in half days
    alertCheck      \* history: the last call of threshold_price_extractions

jobVars == <<runId, runStatus, opState, cmdIdx, startedWith, hookLog>>

catVars == <<detections, catImpl, catOut>>

lakeVars == <<today, lake>>

scrapeVars == <<sPc, chIdx, messages_data, pos, attempt, pendingWait, retval,
                scraping_summary, floods, chFloods, owedSeconds, sleptSeconds,
                kept, interrupted, permErr, absorbed>>

loadVars == <<lPc, tbl, messages, loadResult, loads, saves, atStart, reloaded,
              readerView>>

detectVars == <<dImpl, ocrLibs, image_files, dPc, fileIdx, curDets, ocr_texts, results,
                ocrCall>>

textVars == <<record, tPc, parsed, recs, rerun>>

enrichVars == <<eRun, eCmd, stageResult, csv, produced, det_tbl, price_tbl,
                lastPriceLoad, clock, alertCheck>>

vars == <<jobVars, catVars, lakeVars, scrapeVars, loadVars, detectVars, textVars,
          enrichVars>>

\* What each specification leaves alone.
notJob == <<catVars, lakeVars, scrapeVars, loadVars, detectVars, textVars,
             enrichVars>>

notCat == <<jobVars, lakeVars, scrapeVars, loadVars, detectVars, textVars,
             enrichVars>>

notScrape == <<jobVars, catVars, loadVars, detectVars, textVars,
                enrichVars>>

notLoad == <<jobVars, catVars, scrapeVars, detectVars, textVars,
              enrichVars>>

notDetect == <<jobVars, catVars, lakeVars, scrapeVars, loadVars, textVars,
                enrichVars>>

notText == <<jobVars, catVars, lakeVars, scrapeVars, loadVars, detectVars,
              enrichVars>>

notEnrich == <<jobVars, catVars, lakeVars, scrapeVars, loadVars, detectVars, textVars>>

(***************************************************************************)
(* Bounds of the model                                                     *)
(***************************************************************************)
MaxRuns == 2

\* longest detection list, and the number of confidence levels above 0
MaxDets == 2

MaxConf == 2

\* messages in a channel's history, FloodWaitErrors per run, longest wait asked
\* for (seconds), run dates
HistoryLen == 2

MaxFloods == 2

MaxWait == 2

MaxDates == 2

\* loader runs, and partition files written between them
MaxLoads == 2

MaxSaves == 2

\* pieces (numbers, words, signs) a message text is made of
MaxPieces == 3

\* runs of the enrichment stage, half days the clock goes on for, and the largest
\* threshold the alerter is called with
MaxStageRuns == 2

MaxClock == 3

MaxThreshold == 2

(***************************************************************************)
(* Image categorisation: ai_agent/detection.py and src/src/yolo_detect.py  *)
(***************************************************************************)
\* ImageDetector.PRODUCT_CLASSES and ImageDetector.PERSON_CLASS (the same in both files)
PRODUCT_CLASSES == {"bottle", "cup", "bowl", "vase", "cell phone"}

PERSON_CLASS == "person"

\* Confidences are floats in [0, 1]; the model keeps them as levels 0..MaxConf.
Confs == 0..MaxConf

\* The lists detect_objects may return.  One detection is a class name, of the
\* taxonomy or one of two classes outside it, and a confidence ('bbox' is not
\* read by categorize_image).
DetLists ==
    LET Boxes == [class : PRODUCT_CLASSES \cup {PERSON_CLASS, "dog", "chair"},
                  confidence : Confs]
    IN  UNION {[1..n -> Boxes] : n \in 0..MaxDets}

Impls == {"ai_agent", "yolo_detect"}

NoResult == [category |-> "none", detected |-> <<>>, max_conf |-> 0]

\* Python's max() over a non-empty list.
PyMax(xs) == CHOOSE m \in {xs[i] : i \in 1..Len(xs)} : \A i \in 1..Len(xs) : xs[i] <= m

\* Mutant of categorize_image: a box counts as a product only above confidence 0.
categorize_image_conf_gated(dets) ==
    IF dets = <<>>
    THEN [category |-> "other", detected |-> <<>>, max_conf |-> 0]
    ELSE LET detected    == [i \in 1..Len(dets) |-> dets[i].class]
             confidences == [i \in 1..Len(dets) |-> dets[i].confidence]
             max_conf    == IF confidences # <<>> THEN PyMax(confidences) ELSE 0
             has_person  == \E i \in 1..Len(detected) : detected[i] = PERSON_CLASS
             has_product == \E i \in 1..Len(detected) :
                                detected[i] \in PRODUCT_CLASSES /\ confidences[i] > 0
             category    == IF has_person /\ has_product THEN "promotional"
                            ELSE IF has_product /\ ~has_person THEN "product_display"
                            ELSE IF has_person /\ ~has_product THEN "lifestyle"
                            ELSE "other"
         IN  [category |-> category, detected |-> detected, max_conf |-> max_conf]

\* Mutant of categorize_image: max_conf is the last box's confidence.
categorize_image_last_conf(dets) ==
    IF dets = <<>>
    THEN [category |-> "other", detected |-> <<>>, max_conf |-> 0]
    ELSE LET detected    == [i \in 1..Len(dets) |-> dets[i].class]
             confidences == [i \in 1..Len(dets) |-> dets[i].confidence]
             max_conf    == confidences[Len(confidences)]
             has_person  == \E i \in 1..Len(detected) : detected[i] = PERSON_CLASS
             has_product == \E i \in 1..Len(detected) : detected[i] \in PRODUCT_CLASSES
             category    == IF has_person /\ has_product THEN "promotional"
                            ELSE IF has_product /\ ~has_person THEN "product_display"
                            ELSE IF has_person /\ ~has_product THEN "lifestyle"
                            ELSE "other"
         IN  [category |-> category, detected |-> detected, max_conf |-> max_conf]

\* ImageDetector.categorize_image of ai_agent/detection.py
categorize_image(dets) ==
    IF dets = <<>>
    THEN [category |-> "other", detected |-> <<>>, max_conf |-> 0]
    ELSE LET detected    == [i \in 1..Len(dets) |-> dets[i].class]
             confidences == [i \in 1..Len(dets) |-> dets[i].confidence]
             max_conf    == IF confidences # <<>> THEN PyMax(confidences) ELSE 0
             has_person  == \E i \in 1..Len(detected) : detected[i] = PERSON_CLASS
             has_product == \E i \in 1..Len(detected) : detected[i] \in PRODUCT_CLASSES
             category    == IF has_person /\ has_product THEN "promotional"
                            ELSE IF has_product /\ ~has_person THEN "product_display"
                            ELSE IF has_person /\ ~has_product THEN "lifestyle"
                            ELSE "other"
         IN  [category |-> category, detected |-> detected, max_conf |-> max_conf]

\* ImageDetector.categorize_image of src/src/yolo_detect.py
yolo_categorize_image(dets) ==
    IF dets = <<>>
    THEN [category |-> "other", detected |-> <<>>, max_conf |-> 0]
    ELSE LET detected_classes == [i \in 1..Len(dets) |-> dets[i].class]
             confidences      == [i \in 1..Len(dets) |-> dets[i].confidence]
             max_confidence   == IF confidences # <<>> THEN PyMax(confidences) ELSE 0
             has_person  == \E i \in 1..Len(detected_classes) :
                                detected_classes[i] = PERSON_CLASS
             has_product == \E i \in 1..Len(detected_classes) :
                                detected_classes[i] \in PRODUCT_CLASSES
             category    == IF has_person /\ has_product THEN "promotional"
                            ELSE IF has_product /\ ~has_person THEN "product_display"
                            ELSE IF has_person /\ ~has_product THEN "lifestyle"
                            ELSE "other"
         IN  [category |-> category, detected |-> detected_classes,
              max_conf |-> max_confidence]

CategorizeWith(impl, dets) ==
    IF impl = "ai_agent" THEN categorize_image(dets) ELSE yolo_categorize_image(dets)

\* The cat variables while another specification runs.
CatIdle ==
    /\ detections = <<>>
    /\ catImpl = "ai_agent"
    /\ catOut = NoResult

CatInit ==
    /\ detections \in DetLists
    /\ catImpl \in Impls
    /\ catOut = NoResult

\* categorize_image is called on the detection list at hand.
Categorize ==
    /\ catOut = NoResult
    /\ catOut' = CategorizeWith(catImpl, detections)
    /\ UNCHANGED <<detections, catImpl>>
    /\ UNCHANGED notCat

\* The image is done with; the detector waits for the next one.
ReleaseImage ==
    /\ catOut # NoResult
    /\ detections # <<>>
    /\ detections' = <<>>
    /\ catOut' = NoResult
    /\ UNCHANGED catImpl
    /\ UNCHANGED notCat

CatNext == Categorize \/ ReleaseImage

(***************************************************************************)
(* Job graph: src/pipeline.py                                              *)
(***************************************************************************)
\* The ops in the order the job body names them (and the order its comment documents).
OpOrder == <<"scrape_telegram_data", "load_raw_to_postgres",
             "run_dbt_transformations", "run_yolo_enrichment">>

Ops == {OpOrder[i] : i \in 1..Len(OpOrder)}

OpIndex(o) == CHOOSE i \in 1..Len(OpOrder) : OpOrder[i] = o

\* The commands each op hands to _run_cmd, in order.
OpCmds(o) ==
    CASE o = "scrape_telegram_data"    -> <<"python src/scraper.py">>
      [] o = "load_raw_to_postgres"    -> <<"python src/load_to_postgres.py">>
      [] o = "run_dbt_transformations" -> <<"dbt deps", "dbt run">>
      [] o = "run_yolo_enrichment"     -> <<"python src/yolo_detect.py",
                                            "python src/load_yolo_results.py">>

\* The dependency edges <<upstream, downstream>> the job body declares.  The body
\* calls the four ops one after another but passes no op's output to another op
\* (no op has an input), so the graph Dagster builds from it has no edge.
JobDependencies == {}

Upstream(o) == {u \in Ops : <<u, o>> \in JobDependencies}

StepTerminal(s) == s \in {"success", "failed", "skipped"}

NoSnapshot == [o \in Ops |-> "none"]

JobInit ==
    /\ runId = 1
    /\ runStatus = "NOT_STARTED"
    /\ opState = [o \in Ops |-> "pending"]
    /\ cmdIdx = [o \in Ops |-> 0]
    /\ startedWith = [o \in Ops |-> NoSnapshot]
    /\ hookLog = <<>>

\* The run is launched (by daily_schedule or by hand).
LaunchRun ==
    /\ runStatus = "NOT_STARTED"
    /\ runStatus' = "STARTED"
    /\ UNCHANGED <<runId, opState, cmdIdx, startedWith, hookLog>>
    /\ UNCHANGED notJob

\* The executor takes up a pending op once every upstream op is resolved: it
\* starts the op when all of them succeeded and skips it otherwise.
StartOp(o) ==
    /\ runStatus = "STARTED"
    /\ opState[o] = "pending"
    /\ \A u \in Upstream(o) : StepTerminal(opState[u])
    /\ IF \A u \in Upstream(o) : opState[u] = "success"
       THEN /\ opState' = [opState EXCEPT ![o] = "running"]
            /\ cmdIdx' = [cmdIdx EXCEPT ![o] = 1]
            /\ startedWith' = [startedWith EXCEPT ![o] = opState]
       ELSE /\ opState' = [opState EXCEPT ![o] = "skipped"]
            /\ UNCHANGED <<cmdIdx, startedWith>>
    /\ UNCHANGED <<runId, runStatus, hookLog>>
    /\ UNCHANGED notJob

\* How the Slack part of the hook goes: SLACK_WEBHOOK_URL is not set, the post
\* goes through, or _post_slack raises.
SlackOutcomes == {"unset", "posted", "post_raises"}

\* The Slack part of notify_on_failure: whether an exception leaves the hook.
\* _post_slack is called only with the webhook set, inside try/except Exception,
\* whose handler logs a warning.
SlackPartRaises(slack) ==
    LET tried      == slack # "unset"
        postRaises == tried /\ slack = "post_raises"
        caught     == postRaises
    IN  postRaises /\ ~caught

\* notify_on_failure: the job's failure hook, called by Dagster for a failed op
\* with the op's failure event (err: the message of the Failure _run_cmd raised).
\* The event is logged, then comes the Slack part.
notify_on_failure(log, run, o, err, slack) ==
    Append(log, [job    |-> "medical_telegram_warehouse_job",
                 op     |-> o,
                 run_id |-> run,
                 error  |-> err,
                 raised |-> SlackPartRaises(slack)])

\* Mutant of CmdExit: the ops carry a retry policy, so an op whose command failed
\* is put back for another start.
CmdExit_RetryOp(o, rc, slack) ==
    /\ opState[o] = "running"
    /\ IF rc # 0
       THEN /\ opState' = [opState EXCEPT ![o] = "pending"]
            /\ hookLog' = notify_on_failure(hookLog, runId, o,
                                            OpCmds(o)[cmdIdx[o]], slack)
            /\ UNCHANGED cmdIdx
       ELSE /\ IF cmdIdx[o] < Len(OpCmds(o))
               THEN /\ cmdIdx' = [cmdIdx EXCEPT ![o] = cmdIdx[o] + 1]
                    /\ UNCHANGED opState
               ELSE /\ opState' = [opState EXCEPT ![o] = "success"]
                    /\ UNCHANGED cmdIdx
            /\ UNCHANGED hookLog
    /\ UNCHANGED <<runId, runStatus, startedWith>>
    /\ UNCHANGED notJob

\* The command an op is running exits with code rc.
CmdExit(o, rc, slack) ==
    /\ opState[o] = "running"
    /\ IF rc # 0
       THEN /\ opState' = [opState EXCEPT ![o] = "failed"]
            /\ hookLog' = notify_on_failure(hookLog, runId, o,
                                            OpCmds(o)[cmdIdx[o]], slack)
            /\ UNCHANGED cmdIdx
       ELSE /\ IF cmdIdx[o] < Len(OpCmds(o))
               THEN /\ cmdIdx' = [cmdIdx EXCEPT ![o] = cmdIdx[o] + 1]
                    /\ UNCHANGED opState
               ELSE /\ opState' = [opState EXCEPT ![o] = "success"]
                    /\ UNCHANGED cmdIdx
            /\ UNCHANGED hookLog
    /\ UNCHANGED <<runId, runStatus, startedWith>>
    /\ UNCHANGED notJob

\* Every op is resolved: the run ends.
FinishRun ==
    /\ runStatus = "STARTED"
    /\ \A o \in Ops : StepTerminal(opState[o])
    /\ runStatus' = IF \E o \in Ops : opState[o] = "failed" THEN "FAILURE" ELSE "SUCCESS"
    /\ UNCHANGED <<runId, opState, cmdIdx, startedWith, hookLog>>
    /\ UNCHANGED notJob

\* daily_schedule starts the job afresh, whatever the previous run's outcome.
ScheduleTick ==
    /\ runStatus \in {"SUCCESS", "FAILURE"}
    /\ runId < MaxRuns
    /\ runId' = runId + 1
    /\ runStatus' = "NOT_STARTED"
    /\ opState' = [o \in Ops |-> "pending"]
    /\ cmdIdx' = [o \in Ops |-> 0]
    /\ startedWith' = [o \in Ops |-> NoSnapshot]
    /\ hookLog' = <<>>
    /\ UNCHANGED notJob

JobNext ==
    \/ LaunchRun
    \/ \E o \in Ops : StartOp(o)
    \/ \E o \in Ops, rc \in {0, 1}, slack \in SlackOutcomes : CmdExit(o, rc, slack)
    \/ FinishRun
    \/ ScheduleTick

(***************************************************************************)
(* Data lake and scraper: src/src/scraper.py                               *)
(***************************************************************************)
CHANNELS == <<"https://t.me/CheMed123", "https://t.me/lobelia4cosmetics",
              "https://t.me/tikvahpharma">>

\* TelegramScraper._extract_channel_name: the last path segment of the URL.
extract_channel_name(channel_url) ==
    CASE channel_url = "https://t.me/CheMed123"          -> "CheMed123"
      [] channel_url = "https://t.me/lobelia4cosmetics"  -> "lobelia4cosmetics"
      [] channel_url = "https://t.me/tikvahpharma"       -> "tikvahpharma"

\* limit_per_channel as main() passes it
LimitPerChannel == 100

\* TelegramScraper._extract_message_data: the fields of a message the loader keys
\* on, and whether its text can be stored ("nul": it holds a NUL character, which
\* PostgreSQL text columns refuse).
extract_message_data(id, channel_name, text) ==
    [message_id |-> id, channel_name |-> channel_name, message_text |-> text]

\* What iter_messages yields for a channel: its history, at most limit messages.
StreamLen(limit) == IF limit <= HistoryLen THEN limit ELSE HistoryLen

\* TelegramScraper.save_to_data_lake: nothing for an empty list, else the file of
\* (current date, channel) is (over)written with the list.
save_to_data_lake(lk, msgs, channel_name, current_date) ==
    IF msgs = <<>>
    THEN lk
    ELSE {f \in lk : ~(f.date = current_date /\ f.channel = channel_name)}
         \cup {[date |-> current_date, channel |-> channel_name, messages |-> msgs]}

LakeInit ==
    /\ today = 1
    /\ lake = {}

ScrapeInit ==
    /\ sPc = "loop"
    /\ chIdx = 1
    /\ messages_data = <<>>
    /\ pos = 0
    /\ attempt = 0
    /\ pendingWait = 0
    /\ retval = <<>>
    /\ scraping_summary = [keys |-> {"start_time", "channels"}, channels |-> <<>>]
    /\ floods = 0
    /\ chFloods = 0
    /\ owedSeconds = 0
    /\ sleptSeconds = 0
    /\ kept = <<>>
    /\ interrupted = <<>>
    /\ permErr = {}
    /\ absorbed = 0

CurChannel == extract_channel_name(CHANNELS[chIdx])

\* scrape_all_channels, loop head: scrape_channel is called for the next channel.
BeginChannel ==
    /\ sPc = "loop"
    /\ chIdx <= Len(CHANNELS)
    /\ sPc' = "entity"
    /\ messages_data' = <<>>
    /\ pos' = 0
    /\ attempt' = 1
    /\ chFloods' = 0
    /\ kept' = <<>>
    /\ interrupted' = <<>>
    /\ UNCHANGED <<chIdx, pendingWait, retval, scraping_summary, floods, owedSeconds,
                   sleptSeconds, permErr,
                   absorbed>>
    /\ UNCHANGED <<lakeVars, notScrape>>

\* scrape_channel's handlers for an exception that leaves the outer try:
\*   ChannelPrivateError and any other Exception: return []
\*   FloodWaitError: sleep e.seconds (BackoffDone), then call scrape_channel again
Raised(kind, seconds) ==
    /\ CASE kind = "flood" ->
              /\ floods < MaxFloods
              /\ sPc' = "backoff"
              /\ pendingWait' = seconds
              /\ floods' = floods + 1
              /\ chFloods' = chFloods + 1
              /\ owedSeconds' = owedSeconds + seconds
              /\ interrupted' = messages_data
              /\ UNCHANGED <<retval, permErr>>
         [] kind = "private" ->
              /\ sPc' = "returned"
              /\ retval' = <<>>
              /\ permErr' = permErr \cup {CurChannel}
              /\ UNCHANGED <<pendingWait, floods, chFloods, owedSeconds, interrupted>>
         [] kind = "error" ->
              /\ sPc' = "returned"
              /\ retval' = <<>>
              /\ UNCHANGED <<pendingWait, floods, chFloods, owedSeconds, interrupted,
                             permErr>>
    /\ UNCHANGED <<chIdx, messages_data, pos, attempt, scraping_summary, sleptSeconds,
                   kept, absorbed>>
    /\ UNCHANGED <<lakeVars, notScrape>>

\* client.get_entity(channel_url) returns.
GetEntityOk ==
    /\ sPc = "entity"
    /\ sPc' = "iter"
    /\ UNCHANGED <<chIdx, messages_data, pos, attempt, pendingWait, retval,
                   scraping_summary, floods, chFloods, owedSeconds, sleptSeconds,
                   kept, interrupted, permErr,
                   absorbed>>
    /\ UNCHANGED <<lakeVars, notScrape>>

\* client.get_entity(channel_url) raises.
GetEntityRaises(kind, seconds) ==
    /\ sPc = "entity"
    /\ Raised(kind, seconds)

\* Mutant of ProcessMessage: the partition file is rewritten after every message
\* instead of once when the channel is through.
ProcessMessage_FlushEach(outcome, flood) ==
    /\ sPc = "iter"
    /\ pos < StreamLen(LimitPerChannel)
    /\ outcome = "ok" => ~flood
    /\ flood => floods < MaxFloods
    /\ LET message_data == extract_message_data(pos + 1, CurChannel, "plain")
       IN  IF outcome = "skip"
           THEN UNCHANGED <<messages_data, kept>>
           ELSE /\ messages_data' = Append(messages_data, message_data)
                /\ kept' = Append(kept, message_data)
    /\ lake' = save_to_data_lake(lake, messages_data', CurChannel, today)
    /\ pos' = pos + 1
    /\ floods' = IF flood THEN floods + 1 ELSE floods
    /\ absorbed' = IF flood THEN absorbed + 1 ELSE absorbed
    /\ UNCHANGED <<sPc, chIdx, attempt, pendingWait, retval, scraping_summary,
                   chFloods, owedSeconds, sleptSeconds, interrupted, permErr>>
    /\ UNCHANGED <<today, notScrape>>

\* One turn of the async for loop: iter_messages yields the next message and the
\* loop body runs on it.  outcome:
\*   "ok"     the message is appended
\*   "media"  download_media raised, caught it (except Exception) and returned
\*            None: the message is appended without an image path
\*   "skip"   the body raised: caught by the inner handler (except Exception), the
\*            message is dropped
\* flood: the exception caught was a FloodWaitError.
ProcessMessage(outcome, flood) ==
    /\ sPc = "iter"
    /\ pos < StreamLen(LimitPerChannel)
    /\ outcome = "ok" => ~flood
    /\ flood => floods < MaxFloods
    /\ LET message_data == extract_message_data(pos + 1, CurChannel, "plain")
       IN  IF outcome = "skip"
           THEN UNCHANGED <<messages_data, kept>>
           ELSE /\ messages_data' = Append(messages_data, message_data)
                /\ kept' = Append(kept, message_data)
    /\ pos' = pos + 1
    /\ floods' = IF flood THEN floods + 1 ELSE floods
    /\ absorbed' = IF flood THEN absorbed + 1 ELSE absorbed
    /\ UNCHANGED <<sPc, chIdx, attempt, pendingWait, retval, scraping_summary,
                   chFloods, owedSeconds, sleptSeconds, interrupted, permErr>>
    /\ UNCHANGED <<lakeVars, notScrape>>

\* iter_messages raises while fetching the next message.
IterRaises(kind, seconds) ==
    /\ sPc = "iter"
    /\ pos < StreamLen(LimitPerChannel)
    /\ Raised(kind, seconds)

\* iter_messages is exhausted: scrape_channel returns messages_data.
IterDone ==
    /\ sPc = "iter"
    /\ pos = StreamLen(LimitPerChannel)
    /\ sPc' = "returned"
    /\ retval' = messages_data
    /\ UNCHANGED <<chIdx, messages_data, pos, attempt, pendingWait, scraping_summary,
                   floods, chFloods, owedSeconds, sleptSeconds, kept, interrupted,
                   permErr,
                   absorbed>>
    /\ UNCHANGED <<lakeVars, notScrape>>

\* Mutant of BackoffDone: the retry resumes with the accumulator of the interrupted
\* attempt instead of starting from an empty one.
BackoffDone_KeepAccumulator ==
    /\ sPc = "backoff"
    /\ sleptSeconds' = sleptSeconds + pendingWait
    /\ pendingWait' = 0
    /\ sPc' = "entity"
    /\ pos' = 0
    /\ attempt' = attempt + 1
    /\ kept' = <<>>
    /\ UNCHANGED <<chIdx, messages_data, retval, scraping_summary, floods, chFloods,
                   owedSeconds, interrupted, permErr,
                   absorbed>>
    /\ UNCHANGED <<lakeVars, notScrape>>

\* The FloodWaitError handler's sleep is over: scrape_channel(channel_url, limit)
\* is called again, with its own empty messages_data and a new iter_messages.
BackoffDone ==
    /\ sPc = "backoff"
    /\ sleptSeconds' = sleptSeconds + pendingWait
    /\ pendingWait' = 0
    /\ sPc' = "entity"
    /\ messages_data' = <<>>
    /\ pos' = 0
    /\ attempt' = attempt + 1
    /\ kept' = <<>>
    /\ UNCHANGED <<chIdx, retval, scraping_summary, floods, chFloods, owedSeconds,
                   interrupted, permErr,
                   absorbed>>
    /\ UNCHANGED <<lakeVars, notScrape>>

SummaryEntry(channel_name, n, status) ==
    [channel_name |-> channel_name, messages_scraped |-> n, status |-> status]

\* Mutant of SaveAndSummarise: the loop body has no handler, so the exception of
\* partition_dir.mkdir ends the loop without an entry for the channel.
SaveAndSummarise_StopOnFailure(disk) ==
    /\ sPc = "returned"
    /\ disk # "ok" => retval # <<>>
    /\ lake' = IF disk = "ok" THEN save_to_data_lake(lake, retval, CurChannel, today)
               ELSE lake
    /\ scraping_summary' =
          IF disk = "mkdir"
          THEN scraping_summary
          ELSE [scraping_summary EXCEPT !.channels =
                   Append(@, SummaryEntry(CurChannel, Len(retval), "success"))]
    /\ chIdx' = IF disk = "mkdir" THEN Len(CHANNELS) + 1 ELSE chIdx + 1
    /\ sPc' = "loop"
    /\ UNCHANGED <<messages_data, pos, attempt, pendingWait, retval, floods, chFloods,
                   owedSeconds, sleptSeconds, kept, interrupted, permErr,
                   absorbed>>
    /\ UNCHANGED <<today, notScrape>>

\* scrape_all_channels, rest of the loop body once scrape_channel has returned:
\* save_to_data_lake, then the summary entry.  disk:
\*   "ok"     the file is written
\*   "write"  opening or writing the file fails: logged inside save_to_data_lake
\*   "mkdir"  partition_dir.mkdir raises: the loop's handler records 'failed'
SaveAndSummarise(disk) ==
    /\ sPc = "returned"
    /\ disk # "ok" => retval # <<>>
    /\ lake' = IF disk = "ok" THEN save_to_data_lake(lake, retval, CurChannel, today)
               ELSE lake
    /\ scraping_summary' =
          [scraping_summary EXCEPT !.channels =
              Append(@, IF disk = "mkdir"
                        THEN SummaryEntry(CurChannel, 0, "failed")
                        ELSE SummaryEntry(CurChannel, Len(retval), "success"))]
    /\ chIdx' = chIdx + 1
    /\ sPc' = "loop"
    /\ UNCHANGED <<messages_data, pos, attempt, pendingWait, retval, floods, chFloods,
                   owedSeconds, sleptSeconds, kept, interrupted, permErr,
                   absorbed>>
    /\ UNCHANGED <<today, notScrape>>

\* scrape_all_channels after the loop: end_time is set and the summary returned.
FinishScrape ==
    /\ sPc = "loop"
    /\ chIdx > Len(CHANNELS)
    /\ scraping_summary' = [scraping_summary EXCEPT !.keys = @ \cup {"end_time"}]
    /\ sPc' = "done"
    /\ UNCHANGED <<chIdx, messages_data, pos, attempt, pendingWait, retval, floods,
                   chFloods, owedSeconds, sleptSeconds, kept, interrupted, permErr,
                   absorbed>>
    /\ UNCHANGED <<lakeVars, notScrape>>

ScrapeNext ==
    \/ BeginChannel
    \/ GetEntityOk
    \/ \E kind \in {"flood", "private", "error"}, seconds \in 1..MaxWait : GetEntityRaises(kind, seconds)
    \/ \E outcome \in {"ok", "media", "skip"}, flood \in BOOLEAN :
           ProcessMessage(outcome, flood)
    \/ \E kind \in {"flood", "private", "error"}, seconds \in 1..MaxWait : IterRaises(kind, seconds)
    \/ IterDone
    \/ BackoffDone
    \/ \E disk \in {"ok", "write", "mkdir"} : SaveAndSummarise(disk)
    \/ FinishScrape

(***************************************************************************)
(* Raw loader: src/src/load_to_postgres.py                                 *)
(***************************************************************************)
\* The partition files in the order load_json_files walks them (the model fixes
\* the directory order: by date, then by channel).
RECURSIVE ChannelPos(_, _)
ChannelPos(channel_name, i) ==
    IF extract_channel_name(CHANNELS[i]) = channel_name THEN i
    ELSE ChannelPos(channel_name, i + 1)

FileKey(f) == f.date * (Len(CHANNELS) + 1) + ChannelPos(f.channel, 1)

RECURSIVE FilesInOrder(_)
FilesInOrder(files) ==
    IF files = {} THEN <<>>
    ELSE LET f == CHOOSE x \in files : \A y \in files : FileKey(x) <= FileKey(y)
         IN  <<f>> \o FilesInOrder(files \ {f})

\* load_json_files, one file: every message gets the file's path as source_file.
FileMessages(f) ==
    [i \in 1..Len(f.messages) |->
        [message_id   |-> f.messages[i].message_id,
         channel_name |-> f.messages[i].channel_name,
         message_text |-> f.messages[i].message_text,
         source_file  |-> <<f.date, f.channel>>]]

RECURSIVE ConcatFiles(_)
ConcatFiles(fs) ==
    IF fs = <<>> THEN <<>> ELSE FileMessages(Head(fs)) \o ConcatFiles(Tail(fs))

\* PostgreSQLLoader.load_json_files: the messages of every file of every date
\* partition of the lake.
load_json_files(lk) == ConcatFiles(FilesInOrder(lk))

\* A text PostgreSQL refuses to store makes execute_batch raise.
Insertable(msg) == msg.message_text # "nul"

\* Mutant of create_schema_and_table: CREATE TABLE IF NOT EXISTS without the DROP.
create_table_if_not_exists(t) ==
    IF t.exists THEN t ELSE [exists |-> TRUE, rows |-> <<>>]

\* PostgreSQLLoader.create_schema_and_table, committed: the table is dropped if it
\* exists and created anew, empty.
create_schema_and_table(t) == [exists |-> TRUE, rows |-> <<>>]

\* PostgreSQLLoader.insert_messages, committed: one row per message, in order;
\* scraped_at defaults to the time of the load.
insert_messages(t, msgs, now) ==
    [t EXCEPT !.rows = @ \o [i \in 1..Len(msgs) |->
        [message_id   |-> msgs[i].message_id,
         channel_name |-> msgs[i].channel_name,
         message_text |-> msgs[i].message_text,
         source_file  |-> msgs[i].source_file,
         scraped_at   |-> now]]]

NoTable == [exists |-> FALSE, rows |-> <<>>]

NotRunning == [result |-> "none", batch |-> <<>>, tbl |-> NoTable]

LoadInit ==
    /\ lPc = "idle"
    /\ tbl = NoTable
    /\ messages = <<>>
    /\ loadResult = "none"
    /\ loads = 0
    /\ saves = 0
    /\ atStart = NotRunning
    /\ reloaded = FALSE
    /\ readerView = "none"

\* What a scrape of a channel hands to save_to_data_lake: the channel's first k
\* messages, or its whole history with a NUL in the text of the last message.
IngestLists(channel_name) ==
    {[i \in 1..k |-> extract_message_data(i, channel_name, "plain")] : k \in 1..HistoryLen}
    \cup {[i \in 1..HistoryLen |-> extract_message_data(i, channel_name,
                                      IF i = HistoryLen THEN "nul" ELSE "plain")]}

\* An ingestion run writes a channel's partition file of the day (the loader is
\* not running).
Ingest(channel_name, msgs) ==
    /\ lPc = "idle"
    /\ saves < MaxSaves
    /\ saves' = saves + 1
    /\ lake' = save_to_data_lake(lake, msgs, channel_name, today)
    /\ UNCHANGED <<lPc, tbl, messages, loadResult, loads, atStart, reloaded,
                   readerView>>
    /\ UNCHANGED <<today, notLoad>>

\* The date changes.
NextDay ==
    /\ lPc = "idle"
    /\ today < MaxDates
    /\ today' = today + 1
    /\ UNCHANGED <<lake, loadVars, notLoad>>

\* run(): connect().  A failure is re-raised by run after disconnect().
Connect(ok) ==
    /\ lPc = "idle"
    /\ loads < MaxLoads
    /\ loads' = loads + 1
    /\ readerView' = "none"
    /\ messages' = <<>>
    /\ reloaded' = FALSE
    /\ IF ok THEN /\ lPc' = "connected"
                  /\ loadResult' = "running"
                  /\ atStart' = [result |-> loadResult, batch |-> messages, tbl |-> tbl]
             ELSE /\ lPc' = "idle"
                  /\ loadResult' = "raised"
                  /\ UNCHANGED atStart
    /\ UNCHANGED <<tbl, saves>>
    /\ UNCHANGED <<lakeVars, notLoad>>

\* run(): create_schema_and_table().  DROP, CREATE and the indexes are committed
\* together; on an error they are rolled back and run re-raises.
CreateTable(ok) ==
    /\ lPc = "connected"
    /\ IF ok THEN /\ tbl' = create_schema_and_table(tbl)
                  /\ lPc' = "created"
                  /\ UNCHANGED <<loadResult, atStart, readerView>>
             ELSE /\ lPc' = "idle"
                  /\ loadResult' = "raised"
                  /\ atStart' = NotRunning
                  /\ readerView' = "none"
                  /\ UNCHANGED tbl
    /\ UNCHANGED <<messages, loads, saves, reloaded>>
    /\ UNCHANGED <<lakeVars, notLoad>>

\* run(): messages = load_json_files()
LoadJsonFiles ==
    /\ lPc = "created"
    /\ messages' = load_json_files(lake)
    /\ lPc' = "loaded"
    /\ UNCHANGED <<tbl, loadResult, loads, saves, atStart, reloaded, readerView>>
    /\ UNCHANGED <<lakeVars, notLoad>>

\* run(): if messages: insert_messages(messages); then disconnect().  The batch is
\* inserted and committed as a whole; if execute_batch raises (a record the
\* database refuses, or a database error: ~dbOk), the insert is rolled back and
\* run re-raises.
InsertMessages(dbOk) ==
    /\ lPc = "loaded"
    /\ IF messages = <<>>
       THEN /\ loadResult' = "ok"
            /\ UNCHANGED tbl
       ELSE IF dbOk /\ \A i \in 1..Len(messages) : Insertable(messages[i])
       THEN /\ tbl' = insert_messages(tbl, messages, loads)
            /\ loadResult' = "ok"
       ELSE /\ loadResult' = "raised"
            /\ UNCHANGED tbl
    /\ lPc' = "idle"
    /\ reloaded' = (loadResult' = "ok" /\ atStart.result = "ok" /\ atStart.batch = messages)
    /\ atStart' = NotRunning
    /\ readerView' = "none"
    /\ UNCHANGED <<messages, loads, saves>>
    /\ UNCHANGED <<lakeVars, notLoad>>

\* While the loader runs, another connection (the API's health_check, which counts
\* the rows of raw.telegram_messages) queries the table and sees its committed
\* state.
ReaderQuery ==
    /\ lPc # "idle"
    /\ readerView' = IF ~tbl.exists THEN "missing"
                      ELSE IF tbl.rows = <<>> THEN "empty" ELSE "rows"
    /\ UNCHANGED <<lPc, tbl, messages, loadResult, loads, saves, atStart, reloaded>>
    /\ UNCHANGED <<lakeVars, notLoad>>

LoadNext ==
    \/ \E c \in {extract_channel_name(CHANNELS[i]) : i \in 1..Len(CHANNELS)} :
          \E msgs \in IngestLists(c) : Ingest(c, msgs)
    \/ NextDay
    \/ \E ok \in BOOLEAN : Connect(ok)
    \/ \E ok \in BOOLEAN : CreateTable(ok)
    \/ LoadJsonFiles
    \/ \E dbOk \in BOOLEAN : InsertMessages(dbOk)
    \/ ReaderQuery

(***************************************************************************)
(* Detection step: process_all_images of ai_agent/detection.py and of      *)
(* src/src/yolo_detect.py, with extract_text_from_region of                *)
(* ai_agent/ocr.py and of src/src/ocr.py                                   *)
(***************************************************************************)
\* Texts are sequences of characters.  How a call of extract_text_from_region
\* goes: the image cannot be opened, the OCR call raises, or
\* pytesseract.image_to_string returns a reading: white space only, a word, a
\* word with white space around.
OcrOutcomes ==
    {[openOk |-> FALSE, ocrOk |-> TRUE, reading |-> <<>>],
     [openOk |-> TRUE, ocrOk |-> FALSE, reading |-> <<>>]}
    \cup {[openOk |-> TRUE, ocrOk |-> TRUE, reading |-> r] : r \in {<<" ">>, <<"a">>, <<" ", "a", "\n">>}}

IsSpace(ch) == ch \in {" ", "\n"}

\* Python's str.strip()
RECURSIVE LStrip(_)
LStrip(t) == IF t # <<>> /\ IsSpace(Head(t)) THEN LStrip(Tail(t)) ELSE t

RECURSIVE RStrip(_)
RStrip(t) ==
    IF t # <<>> /\ IsSpace(t[Len(t)]) THEN RStrip(SubSeq(t, 1, Len(t) - 1)) ELSE t

Strip(t) == RStrip(LStrip(t))

\* Python's sep.join(xs)
RECURSIVE PyJoin(_, _)
PyJoin(sep, xs) ==
    IF xs = <<>> THEN <<>>
    ELSE IF Len(xs) = 1 THEN xs[1]
    ELSE xs[1] \o sep \o PyJoin(sep, Tail(xs))

\* ' | ' and ', '
OcrSeparator == <<" ", "|", " ">>

ClassSeparator == <<", ">>

\* How a Python call ends.
Return(v) == [kind |-> "return", value |-> v]

Raise == [kind |-> "raise", value |-> <<>>]

\* try: body  except Exception: return ""
ExceptReturnEmpty(outcome) == IF outcome.kind = "raise" THEN Return(<<>>) ELSE outcome

\* The try body of extract_text_from_region: Image.open, crop, image_to_string,
\* strip.  openOk: the image can be opened and cropped; ocrOk: image_to_string
\* does not raise.
OcrBody(openOk, ocrOk, reading) ==
    IF ~openOk THEN Raise
    ELSE IF ~ocrOk THEN Raise
    ELSE Return(Strip(reading))

\* Mutant of extract_text_from_region: only the OCR call is guarded, Image.open
\* is outside the try.
extract_text_from_region_open_unguarded(libs, openOk, ocrOk, reading) ==
    IF ~libs THEN Return(<<>>)
    ELSE IF ~openOk THEN Raise
    ELSE ExceptReturnEmpty(OcrBody(openOk, ocrOk, reading))

\* extract_text_from_region of ai_agent/ocr.py
extract_text_from_region(libs, openOk, ocrOk, reading) ==
    IF ~libs THEN Return(<<>>)
    ELSE ExceptReturnEmpty(OcrBody(openOk, ocrOk, reading))

\* extract_text_from_region of src/src/ocr.py (the module cannot be imported
\* without the libraries, so the function is only ever called with them)
src_extract_text_from_region(openOk, ocrOk, reading) ==
    ExceptReturnEmpty(OcrBody(openOk, ocrOk, reading))

ExtractTextWith(impl, libs, openOk, ocrOk, reading) ==
    IF impl = "ai_agent" THEN extract_text_from_region(libs, openOk, ocrOk, reading)
    ELSE src_extract_text_from_region(openOk, ocrOk, reading)

\* yolo_detect.py binds extract_text_from_region to None when `from ocr import`
\* fails, and then skips the OCR loop; ai_agent/detection.py always has it.
HasOcrHelper == dImpl = "ai_agent" \/ ocrLibs

\* The images under data/raw/images/<channel>/<message id>.jpg
ImageFiles == <<[channel |-> "CheMed123", stem |-> "1"],
                [channel |-> "lobelia4cosmetics", stem |-> "2"]>>

\* What detect_objects may find on an image of the detection step.
ImageDetLists ==
    UNION {[1..n -> [class : {PERSON_CLASS, "bottle"}, confidence : {1, MaxConf}]] :
           n \in 0..MaxDets}

\* round(maxc, 4): the confidence levels of the model have at most four decimals.
round4(level) == level

NoCall == [called |-> FALSE, libs |-> FALSE, openOk |-> FALSE, ocrOk |-> FALSE,
           reading |-> <<>>, out |-> Return(<<>>)]

\* The detect variables while another specification runs.
DetectIdle ==
    /\ dImpl = "ai_agent"
    /\ ocrLibs = TRUE
    /\ image_files = <<>>
    /\ dPc = "start"
    /\ fileIdx = 0
    /\ curDets = <<>>
    /\ ocr_texts = <<>>
    /\ results = <<>>
    /\ ocrCall = NoCall

DetectInit ==
    /\ dImpl \in Impls
    /\ ocrLibs \in BOOLEAN
    /\ image_files \in {SubSeq(ImageFiles, 1, n) : n \in 0..Len(ImageFiles)}
    /\ dPc = "start"
    /\ fileIdx = 0
    /\ curDets = <<>>
    /\ ocr_texts = <<>>
    /\ results = <<>>
    /\ ocrCall = NoCall

\* process_all_images up to the for loop: the image files are listed; without
\* any (or without the directory) the empty result list is returned.
ListImages ==
    /\ dPc = "start"
    /\ IF image_files = <<>> /\ dImpl = "yolo_detect"
       THEN dPc' = "done" /\ fileIdx' = 0
       ELSE dPc' = "image" /\ fileIdx' = 1
    /\ UNCHANGED <<dImpl, ocrLibs, image_files, curDets, ocr_texts, results, ocrCall>>
    /\ UNCHANGED notDetect

\* Loop body, first part: dets = detect_objects(img_path).  modelOk: the YOLO
\* model runs on the image; if it raises, yolo_detect.py's detect_objects logs
\* and returns [], ai_agent's lets the exception leave process_all_images.
DetectObjects(modelOk, found) ==
    /\ dPc = "image"
    /\ fileIdx <= Len(image_files)
    /\ IF modelOk
       THEN curDets' = found /\ dPc' = "ocr"
       ELSE IF dImpl = "yolo_detect"
       THEN curDets' = <<>> /\ dPc' = "ocr"
       ELSE curDets' = <<>> /\ dPc' = "raised"
    /\ ocr_texts' = <<>>
    /\ UNCHANGED <<dImpl, ocrLibs, image_files, fileIdx, results, ocrCall>>
    /\ UNCHANGED notDetect

OcrLoopRuns == HasOcrHelper /\ curDets # <<>>

\* One turn of `for d in dets`: text = extract_text_from_region(img_path, bbox);
\* ocr_texts.append(text).  Were the helper to raise, ai_agent's loop has no
\* handler and yolo_detect.py's per-image handler skips the image.
OcrBox(openOk, ocrOk, reading) ==
    /\ dPc = "ocr"
    /\ OcrLoopRuns
    /\ Len(ocr_texts) < Len(curDets)
    /\ LET out == ExtractTextWith(dImpl, ocrLibs, openOk, ocrOk, reading)
       IN  /\ ocrCall' = [called |-> TRUE, libs |-> ocrLibs, openOk |-> openOk,
                          ocrOk |-> ocrOk, reading |-> reading, out |-> out]
           /\ IF out.kind = "return"
              THEN /\ ocr_texts' = Append(ocr_texts, out.value)
                   /\ UNCHANGED <<dPc, fileIdx, curDets>>
              ELSE IF dImpl = "yolo_detect"
              THEN /\ ocr_texts' = <<>>
                   /\ curDets' = <<>>
                   /\ fileIdx' = fileIdx + 1
                   /\ dPc' = "image"
              ELSE /\ dPc' = "raised"
                   /\ UNCHANGED <<ocr_texts, fileIdx, curDets>>
    /\ UNCHANGED <<dImpl, ocrLibs, image_files, results>>
    /\ UNCHANGED notDetect

\* Mutant of ImageResult: the classes are listed last box first.
ImageResult_ReversedClasses(impl, f, ds, texts) ==
    LET cat == CategorizeWith(impl, ds)
        n   == Len(cat.detected)
    IN  [message_id       |-> f.stem,
         channel_name     |-> f.channel,
         image_path       |-> <<f.channel, f.stem>>,
         category         |-> cat.category,
         detected_objects |-> PyJoin(ClassSeparator,
                                     [i \in 1..n |-> <<cat.detected[n + 1 - i]>>]),
         num_detections   |-> Len(ds),
         max_confidence   |-> round4(cat.max_conf),
         ocr_text         |-> IF texts # <<>> THEN PyJoin(OcrSeparator, texts) ELSE <<>>]

\* The result record of one image (detections_json, a rendering of dets, is left
\* out).
ImageResult(impl, f, ds, texts) ==
    LET cat == CategorizeWith(impl, ds)
    IN  [message_id       |-> f.stem,
         channel_name     |-> f.channel,
         image_path       |-> <<f.channel, f.stem>>,
         category         |-> cat.category,
         detected_objects |-> PyJoin(ClassSeparator,
                                     [i \in 1..Len(cat.detected) |-> <<cat.detected[i]>>]),
         num_detections   |-> Len(ds),
         max_confidence   |-> round4(cat.max_conf),
         ocr_text         |-> IF texts # <<>> THEN PyJoin(OcrSeparator, texts) ELSE <<>>]

\* Mutant of AppendResult: an image without detections is passed over.
AppendResult_SkipEmpty ==
    /\ dPc = "ocr"
    /\ OcrLoopRuns => Len(ocr_texts) = Len(curDets)
    /\ results' = IF curDets = <<>> THEN results
                  ELSE Append(results,
                              ImageResult(dImpl, image_files[fileIdx], curDets, ocr_texts))
    /\ fileIdx' = fileIdx + 1
    /\ dPc' = "image"
    /\ curDets' = <<>>
    /\ ocr_texts' = <<>>
    /\ ocrCall' = NoCall
    /\ UNCHANGED <<dImpl, ocrLibs, image_files>>
    /\ UNCHANGED notDetect

\* Loop body, rest: categorize_image(dets) and results.append({...}).
AppendResult ==
    /\ dPc = "ocr"
    /\ OcrLoopRuns => Len(ocr_texts) = Len(curDets)
    /\ results' = Append(results,
                         ImageResult(dImpl, image_files[fileIdx], curDets, ocr_texts))
    /\ fileIdx' = fileIdx + 1
    /\ dPc' = "image"
    /\ curDets' = <<>>
    /\ ocr_texts' = <<>>
    /\ ocrCall' = NoCall
    /\ UNCHANGED <<dImpl, ocrLibs, image_files>>
    /\ UNCHANGED notDetect

\* The for loop is over: return results.
ReturnResults ==
    /\ dPc = "image"
    /\ fileIdx > Len(image_files)
    /\ dPc' = "done"
    /\ UNCHANGED <<dImpl, ocrLibs, image_files, fileIdx, curDets, ocr_texts, results,
                   ocrCall>>
    /\ UNCHANGED notDetect

DetectNext ==
    \/ ListImages
    \/ \E modelOk \in BOOLEAN, found \in ImageDetLists : DetectObjects(modelOk, found)
    \/ \E o \in OcrOutcomes : OcrBox(o.openOk, o.ocrOk, o.reading)
    \/ AppendResult
    \/ ReturnResults

(***************************************************************************)
(* Text extraction: ai_agent/transform.py and src/src/pipeline/transform.py *)
(* (the two files define the same PRICE_REGEX, PRODUCT_TERMS and functions) *)
(***************************************************************************)
LowerCase == <<"a", "b", "c", "d", "e", "f", "g", "h", "i", "j", "k", "l", "m",
               "n", "o", "p", "q", "r", "s", "t", "u", "v", "w", "x", "y", "z">>

UpperCase == <<"A", "B", "C", "D", "E", "F", "G", "H", "I", "J", "K", "L", "M",
               "N", "O", "P", "Q", "R", "S", "T", "U", "V", "W", "X", "Y", "Z">>

IsUpper(ch) == \E i \in 1..Len(UpperCase) : UpperCase[i] = ch

\* \d
IsDigit(ch) == ch \in {"0", "1", "2", "3", "4", "5", "6", "7", "8", "9"}

\* \w
IsWordChar(ch) ==
    \/ IsDigit(ch)
    \/ \E i \in 1..Len(LowerCase) : LowerCase[i] = ch
    \/ IsUpper(ch)
    \/ ch = "_"

\* str.lower(), one character and a text
LowerChar(ch) ==
    IF IsUpper(ch)
    THEN LowerCase[CHOOSE i \in 1..Len(UpperCase) : UpperCase[i] = ch]
    ELSE ch

Lower(t) == [i \in 1..Len(t) |-> LowerChar(t[i])]

\* `term in text`: term is a substring of text
Contains(text, term) ==
    \E s \in 0..(Len(text) - Len(term)) : SubSeq(text, s + 1, s + Len(term)) = term

\* PRODUCT_TERMS, in list order
PRODUCT_TERMS ==
    << <<"t", "a", "b", "l", "e", "t">>,
       <<"c", "a", "p", "s", "u", "l", "e">>,
       <<"s", "y", "r", "u", "p">>,
       <<"i", "n", "j", "e", "c", "t", "i", "o", "n">>,
       <<"o", "i", "n", "t", "m", "e", "n", "t">>,
       <<"c", "r", "e", "a", "m">>,
       <<"b", "a", "n", "d", "a", "g", "e">>,
       <<"m", "a", "s", "k">>,
       <<"g", "l", "o", "v", "e", "s">>,
       <<"a", "n", "t", "i", "b", "i", "o", "t", "i", "c">>,
       <<"v", "i", "t", "a", "m", "i", "n">>,
       <<"a", "s", "p", "i", "r", "i", "n">>,
       <<"p", "a", "r", "a", "c", "e", "t", "a", "m", "o", "l">>,
       <<"i", "b", "u", "p", "r", "o", "f", "e", "n">>,
       <<"c", "o", "u", "g", "h", " ", "s", "y", "r", "u", "p">> >>

\* The alternatives of PRICE_REGEX's currency group, in pattern order:
\* ETB | birr | USD | US\$ | \$  (matched ignoring case)
CurrencyMarkers ==
    << <<"e", "t", "b">>, <<"b", "i", "r", "r">>, <<"u", "s", "d">>,
       <<"u", "s", "$">>, <<"$">> >>

\* \b at position p of t (between t[p] and t[p + 1])
WordBoundary(t, p) ==
    (p > 0 /\ IsWordChar(t[p])) # (p < Len(t) /\ IsWordChar(t[p + 1]))

\* t holds n digits right after position p
DigitsAt(t, p, n) == p + n <= Len(t) /\ \A k \in 1..n : IsDigit(t[p + k])

\* [.,]\d{n} right after position p
SeparatedDigitsAt(t, p, n) ==
    /\ p + 1 <= Len(t)
    /\ t[p + 1] \in {".", ","}
    /\ DigitsAt(t, p + 1, n)

\* The matcher below follows the regex engine: every operator gives the end of
\* the match of the rest of the pattern from position p, trying the pattern's
\* choices in the engine's order (greedy first), or -1 when none leads to a match.

\* (?:ETB|birr|USD|US\$|\$)?\b : the k-th alternative and those after it, then
\* the empty alternative.
RECURSIVE MatchCurrency(_, _, _)
MatchCurrency(t, p, k) ==
    IF k > Len(CurrencyMarkers)
    THEN (IF WordBoundary(t, p) THEN p ELSE -1)
    ELSE LET m == CurrencyMarkers[k]
             e == p + Len(m)
         IN  IF /\ e <= Len(t)
                /\ Lower(SubSeq(t, p + 1, e)) = m
                /\ WordBoundary(t, e)
             THEN e
             ELSE MatchCurrency(t, p, k + 1)

\* \s* and the rest
RECURSIVE MatchSpaces(_, _)
MatchSpaces(t, p) ==
    LET more == IF p + 1 <= Len(t) /\ IsSpace(t[p + 1]) THEN MatchSpaces(t, p + 1)
                ELSE -1
    IN  IF more # -1 THEN more ELSE MatchCurrency(t, p, 1)

\* (?:[.,]\d{2})? and the rest
MatchDecimals(t, p) ==
    LET with == IF SeparatedDigitsAt(t, p, 2) THEN MatchSpaces(t, p + 3) ELSE -1
    IN  IF with # -1 THEN with ELSE MatchSpaces(t, p)

\* (?:[.,]\d{3})* and the rest
RECURSIVE MatchThousands(_, _)
MatchThousands(t, p) ==
    LET more == IF SeparatedDigitsAt(t, p, 3) THEN MatchThousands(t, p + 4) ELSE -1
    IN  IF more # -1 THEN more ELSE MatchDecimals(t, p)

\* \d{1,3} with n digits, then fewer, and the rest
RECURSIVE MatchLeadingDigits(_, _, _)
MatchLeadingDigits(t, p, n) ==
    IF n = 0 THEN -1
    ELSE LET e == IF DigitsAt(t, p, n) THEN MatchThousands(t, p + n) ELSE -1
         IN  IF e # -1 THEN e ELSE MatchLeadingDigits(t, p, n - 1)

\* PRICE_REGEX matched at position p: the end of the match, or -1
MatchPriceAt(t, p) ==
    IF WordBoundary(t, p) THEN MatchLeadingDigits(t, p, 3) ELSE -1

\* PRICE_REGEX.findall(t), scanning from position p
RECURSIVE FindAllPrices(_, _)
FindAllPrices(t, p) ==
    IF p >= Len(t) THEN <<>>
    ELSE LET e == MatchPriceAt(t, p)
         IN  IF e = -1 THEN FindAllPrices(t, p + 1)
             ELSE <<SubSeq(t, p + 1, e)>> \o FindAllPrices(t, e)

\* extract_prices (None is the empty text)
extract_prices(text) == FindAllPrices(text, 0)

\* extract_product_terms: the loop over PRODUCT_TERMS from index k on
RECURSIVE FoundTerms(_, _)
FoundTerms(lowered, k) ==
    IF k > Len(PRODUCT_TERMS) THEN <<>>
    ELSE (IF Contains(lowered, PRODUCT_TERMS[k]) THEN <<PRODUCT_TERMS[k]>> ELSE <<>>)
         \o FoundTerms(lowered, k + 1)

\* Mutant of extract_product_terms: the text is searched as it is, not lowered.
extract_product_terms_case_sensitive(text) ==
    IF text = <<>> THEN <<>> ELSE FoundTerms(text, 1)

extract_product_terms(text) ==
    IF text = <<>> THEN <<>> ELSE FoundTerms(Lower(text), 1)

\* parse_text_record: the non-empty ones of message_text and ocr_text joined,
\* and what the two extractors find in the joined text.
parse_text_record(rec) ==
    LET full_text == (IF rec.message_text # <<>> THEN <<rec.message_text>> ELSE <<>>)
                     \o (IF rec.ocr_text # <<>> THEN <<rec.ocr_text>> ELSE <<>>)
        combined  == PyJoin(<<" ", "|", " ">>, full_text)
    IN  [products    |-> extract_product_terms(combined),
         prices      |-> extract_prices(combined),
         source_text |-> combined]

\* The pieces message texts of the model are made of, and the texts.
TextPieces ==
    { <<"1", "0", "0">>, <<"5">>, <<"0", "0", "0">>, <<",">>, <<" ">>,
      <<"E", "T", "B">>, <<"$">>, <<"t", "a", "b", "l", "e", "t">>,
      <<"C", "a", "p", "s", "u", "l", "e">> }

RECURSIVE ConcatAll(_)
ConcatAll(ps) == IF ps = <<>> THEN <<>> ELSE Head(ps) \o ConcatAll(Tail(ps))

MessageTexts == {ConcatAll(ps) : ps \in UNION {[1..n -> TextPieces] : n \in 0..MaxPieces}}

\* The ocr_text values of the model: none, "tablet", "7 usd"
OcrTexts == {<<>>, <<"t", "a", "b", "l", "e", "t">>, <<"7", " ", "u", "s", "d">>}

NotParsed == [products |-> <<>>, prices |-> <<>>, source_text |-> <<"?">>]

\* The text variables while another specification runs.
TextIdle ==
    /\ record = [message_text |-> <<>>, ocr_text |-> <<>>]
    /\ tPc = "row"
    /\ parsed = NotParsed
    /\ recs = <<>>
    /\ rerun = <<>>

\* A row of the CSV file has been read.
TextInit ==
    /\ record \in [message_text : MessageTexts, ocr_text : OcrTexts]
    /\ tPc = "row"
    /\ parsed = NotParsed
    /\ recs = <<>>
    /\ rerun = <<>>

\* Mutant of ParseRow: the record is kept whether or not anything was found.
ParseRow_KeepAll ==
    /\ tPc = "row"
    /\ parsed' = parse_text_record(record)
    /\ recs' = Append(recs, parsed')
    /\ tPc' = "parsed"
    /\ UNCHANGED <<record, rerun>>
    /\ UNCHANGED notText

\* process_yolo_ocr_file, loop body: rec = parse_text_record(row); the record is
\* kept if it has a product or a price.
ParseRow ==
    /\ tPc = "row"
    /\ parsed' = parse_text_record(record)
    /\ recs' = IF parsed'.products # <<>> \/ parsed'.prices # <<>>
               THEN Append(recs, parsed')
               ELSE recs
    /\ tPc' = "parsed"
    /\ UNCHANGED <<record, rerun>>
    /\ UNCHANGED notText

\* extract_prices is run on the tokens it returned for the row, put together
\* with nothing or with a blank between them.
ExtractAgain(sep) ==
    /\ tPc = "parsed"
    /\ rerun' = extract_prices(PyJoin(sep, parsed.prices))
    /\ tPc' = "rerun"
    /\ UNCHANGED <<record, parsed, recs>>
    /\ UNCHANGED notText

TextNext ==
    \/ ParseRow
    \/ \E sep \in {<<>>, <<" ">>} : ExtractAgain(sep)

(***************************************************************************)
(* Enrichment stage: main of src/src/yolo_detect.py and                    *)
(* src/src/load_yolo_results.py as run_yolo_enrichment runs them, the      *)
(* price loaders of src/src/load_price_results.py and ai_agent/loaders.py, *)
(* and the threshold alerter of src/src/alerts.py                          *)
(***************************************************************************)
\* What process_all_images of yolo_detect.py may return: a result for each of
\* the first n image files.  On an image it finds no box, or a bottle whose
\* region reads "tablet".
EnrichBatches ==
    LET EnrichFindings ==
            {[dets |-> <<>>, texts |-> <<>>],
             [dets |-> <<[class |-> "bottle", confidence |-> MaxConf]>>,
              texts |-> <<<<"t", "a", "b", "l", "e", "t">>>>]}
    IN  UNION {{[i \in 1..n |-> ImageResult("yolo_detect", ImageFiles[i],
                                            fs[i].dets, fs[i].texts)] :
                   fs \in [1..n -> EnrichFindings]} : n \in 0..Len(ImageFiles)}

\* ImageDetector.save_results: the rows csv.DictWriter writes under the header,
\* one per result, with the columns of fieldnames (detections_json left out of
\* the model).
CsvRows(rs) ==
    [i \in 1..Len(rs) |->
        [message_id       |-> rs[i].message_id,
         channel_name     |-> rs[i].channel_name,
         image_path       |-> rs[i].image_path,
         category         |-> rs[i].category,
         detected_objects |-> rs[i].detected_objects,
         num_detections   |-> rs[i].num_detections,
         max_confidence   |-> rs[i].max_confidence,
         ocr_text         |-> rs[i].ocr_text]]

\* ImageDetector.save_results: nothing is written for an empty list; else the
\* file is (over)written.
save_results(file, rs) ==
    IF rs = <<>> THEN file ELSE [exists |-> TRUE, rows |-> CsvRows(rs)]

\* YOLOResultsLoader.load_csv (the file exists): the rows csv.DictReader gives.
load_csv(file) == file.rows

\* YOLOResultsLoader.create_table, committed: DROP TABLE IF EXISTS, CREATE TABLE.
create_table(t) == [exists |-> TRUE, rows |-> <<>>]

\* YOLOResultsLoader.insert_results, committed: one row per result with the
\* eight columns of the INSERT (ocr_text is not among them); loaded_at defaults
\* to the time of the load.
insert_results(t, rs, now) ==
    IF rs = <<>> THEN t
    ELSE [t EXCEPT !.rows = @ \o [i \in 1..Len(rs) |->
             [message_id       |-> rs[i].message_id,
              channel_name     |-> rs[i].channel_name,
              image_path       |-> rs[i].image_path,
              category         |-> rs[i].category,
              detected_objects |-> rs[i].detected_objects,
              num_detections   |-> rs[i].num_detections,
              max_confidence   |-> rs[i].max_confidence,
              loaded_at        |-> now]]]

\* Where a run of a loader may fail: nowhere, at connect(), in create_table()
\* (rolled back), or in the bulk insert (rolled back).
LoaderFailures == {"none", "connect", "create", "insert"}

\* YOLOResultsLoader.run: connect, create_table, load_csv, insert_results; every
\* exception is re-raised after disconnect().  load_csv raises FileNotFoundError
\* when the file does not exist.
YoloLoaderRun(t, file, failAt, now) ==
    IF failAt \in {"connect", "create"}
    THEN [tbl |-> t, result |-> "raised"]
    ELSE IF ~file.exists
    THEN [tbl |-> create_table(t), result |-> "raised"]
    ELSE IF load_csv(file) # <<>> /\ failAt = "insert"
    THEN [tbl |-> create_table(t), result |-> "raised"]
    ELSE [tbl |-> insert_results(create_table(t), load_csv(file), now),
          result |-> "ok"]

\* process_yolo_ocr_file: parse_text_record on every row of the CSV (its rows
\* have no message_text column), keeping the records with a product or a price.
ExtractionRecord(row) ==
    LET rec == parse_text_record([message_text |-> <<>>, ocr_text |-> row.ocr_text])
    IN  [message_id   |-> row.message_id,
         channel_name |-> row.channel_name,
         products     |-> rec.products,
         prices       |-> rec.prices,
         source_text  |-> rec.source_text]

RECURSIVE process_yolo_ocr_file(_)
process_yolo_ocr_file(rows) ==
    IF rows = <<>> THEN <<>>
    ELSE LET rec == ExtractionRecord(Head(rows))
         IN  (IF rec.products # <<>> \/ rec.prices # <<>> THEN <<rec>> ELSE <<>>)
             \o process_yolo_ocr_file(Tail(rows))

\* PriceResultsLoader.insert, committed: one row per record, products and prices
\* joined with ','.
insert(t, records, now) ==
    IF records = <<>> THEN t
    ELSE [t EXCEPT !.rows = @ \o [i \in 1..Len(records) |->
             [message_id   |-> records[i].message_id,
              channel_name |-> records[i].channel_name,
              products     |-> PyJoin(<<",">>, records[i].products),
              prices       |-> PyJoin(<<",">>, records[i].prices),
              source_text  |-> records[i].source_text,
              loaded_at    |-> now]]]

\* A price loader's run on a batch of records (the same in load_price_results.py
\* and in ai_agent's load_price_extractions): connect, create_table (DROP TABLE
\* IF EXISTS, CREATE TABLE, commit), insert, disconnect.
PriceLoaderRun(t, records, failAt, now) ==
    IF failAt \in {"connect", "create"}
    THEN [tbl |-> t, result |-> "raised"]
    ELSE IF records # <<>> /\ failAt = "insert"
    THEN [tbl |-> create_table(t), result |-> "raised"]
    ELSE [tbl |-> insert(create_table(t), records, now), result |-> "ok"]

\* The record batches load_price_extractions may be called with.
ExtractionBatches == {process_yolo_ocr_file(CsvRows(b)) : b \in EnrichBatches}

\* INTERVAL '1 day', in half days
Day == 2

\* SELECT the row count FROM raw.price_extractions WHERE loaded_at >= NOW() - INTERVAL '1 day'
CountLastDay(t, now) ==
    Cardinality({i \in 1..Len(t.rows) : t.rows[i].loaded_at >= now - Day})

\* send_alert: the Slack post is tried if the webhook is set, an exception of
\* _post_slack is caught and logged, and the alert is logged in every case.
send_alert(slack) ==
    [alerted |-> TRUE,
     slack   |-> CASE slack = "unset"       -> "not_tried"
                   [] slack = "posted"      -> "posted"
                   [] slack = "post_raises" -> "warning_logged",
     raised  |-> SlackPartRaises(slack)]

NotAlerted == [alerted |-> FALSE, slack |-> "not_tried", raised |-> FALSE]

\* Mutant of threshold_price_extractions: the alert is sent only above the
\* threshold.
threshold_price_extractions_above(t, now, min_count, way, slack) ==
    IF way = "no_psycopg2" \/ way = "db_down" \/ ~t.exists
    THEN [called |-> TRUE, min_count |-> min_count, counted |-> FALSE, count |-> 0,
          outcome |-> NotAlerted]
    ELSE LET count == CountLastDay(t, now)
         IN  [called |-> TRUE, min_count |-> min_count, counted |-> TRUE,
              count |-> count,
              outcome |-> IF count > min_count THEN send_alert(slack) ELSE NotAlerted]

\* threshold_price_extractions: returns at once without psycopg2; an exception of
\* connect or of the query (the table does not exist) is caught and logged; else
\* send_alert is called when count >= min_count.  'way' is how the check goes:
\* psycopg2 cannot be imported, the database cannot be reached, or the query is
\* sent.
threshold_price_extractions(t, now, min_count, way, slack) ==
    IF way = "no_psycopg2" \/ way = "db_down" \/ ~t.exists
    THEN [called |-> TRUE, min_count |-> min_count, counted |-> FALSE, count |-> 0,
          outcome |-> NotAlerted]
    ELSE LET count == CountLastDay(t, now)
         IN  [called |-> TRUE, min_count |-> min_count, counted |-> TRUE,
              count |-> count,
              outcome |-> IF count >= min_count THEN send_alert(slack) ELSE NotAlerted]

EnrichInit ==
    /\ eRun = 0
    /\ eCmd = 0
    /\ stageResult = "none"
    /\ csv = [exists |-> FALSE, rows |-> <<>>]
    /\ produced = <<>>
    /\ det_tbl = NoTable
    /\ price_tbl = NoTable
    /\ lastPriceLoad = [ran |-> FALSE, batch |-> <<>>, failAt |-> "none",
                        result |-> "none", before |-> <<>>]
    /\ clock = 0
    /\ alertCheck = [called |-> FALSE, min_count |-> 0, counted |-> FALSE,
                     count |-> 0, outcome |-> NotAlerted]

\* Dagster starts run_yolo_enrichment.
StartEnrichment ==
    /\ eCmd = 0
    /\ eRun < MaxStageRuns
    /\ eRun' = eRun + 1
    /\ eCmd' = 1
    /\ stageResult' = "running"
    /\ produced' = <<>>
    /\ UNCHANGED <<csv, det_tbl, price_tbl, lastPriceLoad, clock, alertCheck>>
    /\ UNCHANGED notEnrich

\* _run_cmd for the command at hand has ended with exit code rc: a non-zero code
\* fails the op, else the op goes on to its next command or ends.
StageAfter(rc) ==
    IF rc # 0
    THEN eCmd' = 0 /\ stageResult' = "raised"
    ELSE IF eCmd < Len(OpCmds("run_yolo_enrichment"))
    THEN eCmd' = eCmd + 1 /\ UNCHANGED stageResult
    ELSE eCmd' = 0 /\ stageResult' = "ok"

\* python src/yolo_detect.py: main().  results = process_all_images(); with no
\* results main returns (exit code 0) before save_results; else save_results
\* writes the CSV, and an error in it is re-raised (exit code 1).
YoloDetectMain(rs, writeOk) ==
    /\ eCmd >= 1
    /\ OpCmds("run_yolo_enrichment")[eCmd] = "python src/yolo_detect.py"
    /\ produced' = rs
    /\ IF rs = <<>>
       THEN UNCHANGED csv /\ StageAfter(0)
       ELSE IF writeOk
       THEN csv' = save_results(csv, rs) /\ StageAfter(0)
       ELSE UNCHANGED csv /\ StageAfter(1)
    /\ UNCHANGED <<eRun, det_tbl, price_tbl, lastPriceLoad, clock, alertCheck>>
    /\ UNCHANGED notEnrich

\* python src/load_yolo_results.py: YOLOResultsLoader(DB_CONFIG).run()
LoadYoloResults(failAt) ==
    /\ eCmd >= 1
    /\ OpCmds("run_yolo_enrichment")[eCmd] = "python src/load_yolo_results.py"
    /\ LET run == YoloLoaderRun(det_tbl, csv, failAt, clock)
       IN  /\ det_tbl' = run.tbl
           /\ StageAfter(IF run.result = "ok" THEN 0 ELSE 1)
    /\ UNCHANGED <<eRun, csv, produced, price_tbl, lastPriceLoad, clock, alertCheck>>
    /\ UNCHANGED notEnrich

\* python src/load_price_results.py data/processed/yolo_detections.csv, run by
\* hand (no op of the job runs it): process_yolo_ocr_file, which needs the file,
\* then the loader.
LoadPriceResultsMain(failAt) ==
    /\ eCmd = 0
    /\ csv.exists
    /\ LET records == process_yolo_ocr_file(csv.rows)
           run     == PriceLoaderRun(price_tbl, records, failAt, clock)
       IN  /\ price_tbl' = run.tbl
           /\ lastPriceLoad' = [ran |-> TRUE, batch |-> records, failAt |-> failAt,
                                result |-> run.result, before |-> price_tbl.rows]
    /\ UNCHANGED <<eRun, eCmd, stageResult, csv, produced, det_tbl, clock, alertCheck>>
    /\ UNCHANGED notEnrich

\* ai_agent's load_price_extractions(records)
LoadPriceExtractions(records, failAt) ==
    /\ eCmd = 0
    /\ LET run == PriceLoaderRun(price_tbl, records, failAt, clock)
       IN  /\ price_tbl' = run.tbl
           /\ lastPriceLoad' = [ran |-> TRUE, batch |-> records, failAt |-> failAt,
                                result |-> run.result, before |-> price_tbl.rows]
    /\ UNCHANGED <<eRun, eCmd, stageResult, csv, produced, det_tbl, clock, alertCheck>>
    /\ UNCHANGED notEnrich

\* Half a day goes by.
Tick ==
    /\ clock < MaxClock
    /\ clock' = clock + 1
    /\ UNCHANGED <<eRun, eCmd, stageResult, csv, produced, det_tbl, price_tbl,
                   lastPriceLoad, alertCheck>>
    /\ UNCHANGED notEnrich

\* threshold_price_extractions(db_config, min_count) is called.
ThresholdCheck(min_count, way, slack) ==
    /\ alertCheck' = threshold_price_extractions(price_tbl, clock, min_count, way, slack)
    /\ UNCHANGED <<eRun, eCmd, stageResult, csv, produced, det_tbl, price_tbl,
                   lastPriceLoad, clock>>
    /\ UNCHANGED notEnrich

EnrichNext ==
    \/ StartEnrichment
    \/ \E rs \in EnrichBatches, writeOk \in BOOLEAN : YoloDetectMain(rs, writeOk)
    \/ \E failAt \in LoaderFailures : LoadYoloResults(failAt)
    \/ \E failAt \in LoaderFailures : LoadPriceResultsMain(failAt)
    \/ \E records \in ExtractionBatches, failAt \in LoaderFailures :
           LoadPriceExtractions(records, failAt)

AlertNext ==
    \/ \E records \in ExtractionBatches, failAt \in LoaderFailures :
           LoadPriceExtractions(records, failAt)
    \/ Tick
    \/ \E min_count \in 1..MaxThreshold, slack \in SlackOutcomes,
          way \in {"no_psycopg2", "db_down", "query"} :
           ThresholdCheck(min_count, way, slack)

(***************************************************************************)
(* Specifications                                                          *)
(***************************************************************************)
InitJob ==
    JobInit /\ CatIdle /\ LakeInit /\ ScrapeInit /\ LoadInit /\ DetectIdle /\ TextIdle
    /\ EnrichInit

SpecJob == InitJob /\ [][JobNext]_vars

InitCat ==
    CatInit /\ JobInit /\ LakeInit /\ ScrapeInit /\ LoadInit /\ DetectIdle /\ TextIdle
    /\ EnrichInit

SpecCat == InitCat /\ [][CatNext]_vars

InitScrape ==
    ScrapeInit /\ LakeInit /\ JobInit /\ CatIdle /\ LoadInit /\ DetectIdle /\ TextIdle
    /\ EnrichInit

SpecScrape == InitScrape /\ [][ScrapeNext]_vars

\* The scraper as asyncio runs it: the coroutine is resumed whenever it can go on
\* (a sleep ends, a request is answered), until scrape_all_channels returns.
SpecScrapeLive == InitScrape /\ [][ScrapeNext]_vars /\ WF_vars(ScrapeNext)

InitLoad ==
    LoadInit /\ LakeInit /\ JobInit /\ CatIdle /\ ScrapeInit /\ DetectIdle /\ TextIdle
    /\ EnrichInit

SpecLoad == InitLoad /\ [][LoadNext]_vars

InitDetect ==
    DetectInit /\ JobInit /\ CatIdle /\ LakeInit /\ ScrapeInit /\ LoadInit /\ TextIdle
    /\ EnrichInit

SpecDetect == InitDetect /\ [][DetectNext]_vars

InitText ==
    TextInit /\ JobInit /\ CatIdle /\ LakeInit /\ ScrapeInit /\ LoadInit /\ DetectIdle
    /\ EnrichInit

SpecText == InitText /\ [][TextNext]_vars

InitEnrich ==
    EnrichInit /\ JobInit /\ CatIdle /\ LakeInit /\ ScrapeInit /\ LoadInit /\ DetectIdle
    /\ TextIdle

SpecEnrich == InitEnrich /\ [][EnrichNext]_vars

InitAlert ==
    EnrichInit /\ JobInit /\ CatIdle /\ LakeInit /\ ScrapeInit /\ LoadInit /\ DetectIdle
    /\ TextIdle

SpecAlert == InitAlert /\ [][AlertNext]_vars

(***************************************************************************)
(* Claims on the job graph                                                 *)
(***************************************************************************)
Started(o) == startedWith[o] # NoSnapshot

Earlier(o) == {e \in Ops : OpIndex(e) < OpIndex(o)}

\* C1: in every run, a stage is started only if every earlier stage of the graph
\* (scrape -> load_raw -> dbt -> yolo) had succeeded, so that once a stage fails no
\* later stage is started, and a run in which a stage failed ends Failed.
C1_HaltOnFailure ==
    /\ \A o \in Ops : Started(o) => \A e \in Earlier(o) : startedWith[o][e] = "success"
    /\ (runStatus \in {"SUCCESS", "FAILURE"} /\ \E o \in Ops : opState[o] = "failed")
          => runStatus = "FAILURE"

\* C2: the stages of one run execute strictly one after another: never are two
\* stages running at the same time, and load_raw never starts before ingest has
\* finished.
C2_Sequential ==
    /\ Cardinality({o \in Ops : opState[o] = "running"}) <= 1
    /\ Started("load_raw_to_postgres")
          => StepTerminal(startedWith["load_raw_to_postgres"]["scrape_telegram_data"])

\* C19: a failed run is reported through the failure hook as one failure event
\* with job name, op name, run id and error text: the hook has fired exactly
\* once when the run ends FAILURE, and a failing Slack post is logged and neither
\* raises out of the hook nor changes how the run ends.
C19_OneFailureEvent ==
    /\ runStatus = "FAILURE" => Len(hookLog) = 1
    /\ \A i \in 1..Len(hookLog) :
          /\ hookLog[i].job = "medical_telegram_warehouse_job"
          /\ hookLog[i].run_id = runId
          /\ opState[hookLog[i].op] = "failed"
          /\ \E k \in 1..Len(OpCmds(hookLog[i].op)) :
                 hookLog[i].error = OpCmds(hookLog[i].op)[k]
          /\ ~hookLog[i].raised
    /\ runStatus \in {"SUCCESS", "FAILURE"} =>
          (runStatus = "FAILURE" <=> \E o \in Ops : opState[o] = "failed")

\* What a step of one run does to a stage: a stage that was started stays started
\* as it was, a stage that is running is not put back, and a stage that is resolved
\* (succeeded, failed or skipped) stays as it is.
NoRestartStep ==
    runId' = runId =>
        \A o \in Ops :
            /\ Started(o) => startedWith'[o] = startedWith[o]
            /\ opState[o] = "running" => opState'[o] # "pending"
            /\ opState[o] = "running" => cmdIdx'[o] >= cmdIdx[o]
            /\ StepTerminal(opState[o]) =>
                   (opState'[o] = opState[o] /\ cmdIdx'[o] = cmdIdx[o])

\* C24: the orchestrator never retries a stage: within one run each stage is
\* started at most once, and a stage that failed is never started again in that
\* run.
C24_NoStageRetry == [][NoRestartStep]_vars

\* C24 witness: the run has ended FAILURE with the first stage failed at its one
\* start and every other stage resolved.
C24_Witness ==
    /\ runStatus = "FAILURE"
    /\ Started("scrape_telegram_data")
    /\ opState["scrape_telegram_data"] = "failed"
    /\ cmdIdx["scrape_telegram_data"] = 1
    /\ \A o \in Ops : StepTerminal(opState[o])

(***************************************************************************)
(* Claims on the scraper                                                   *)
(***************************************************************************)
\* What holds while a fetch attempt of scrape_channel is under way or has returned.
RetryState ==
    /\ sPc \in {"entity", "iter"} =>
          /\ attempt = chFloods + 1
          /\ sleptSeconds = owedSeconds
          /\ messages_data = kept
    /\ sPc = "entity" => (pos = 0 /\ messages_data = <<>>)
    /\ sPc = "backoff" => (attempt = chFloods /\ pendingWait >= 1
                           /\ owedSeconds = sleptSeconds + pendingWait)
    /\ (sPc = "returned" /\ retval # <<>>) =>
          /\ attempt = chFloods + 1
          /\ retval = kept
          /\ \A i, j \in 1..Len(retval) :
                 retval[i].message_id = retval[j].message_id => i = j

\* The step that follows a FloodWaitError caught by scrape_channel.
RetryStep ==
    sPc = "backoff" =>
        /\ sPc' = "entity"
        /\ chIdx' = chIdx
        /\ attempt' = attempt + 1
        /\ sleptSeconds' = sleptSeconds + pendingWait
        /\ pos' = 0
        /\ messages_data' = <<>>

C4_PrivateChannelFailed ==
    \A i \in 1..Len(scraping_summary.channels) :
        scraping_summary.channels[i].channel_name \in permErr
            => scraping_summary.channels[i].status = "failed"

\* What the run summary holds at any point of scrape_all_channels: one entry for
\* each channel the loop is through with, in the order of CHANNELS.
SummaryShape ==
    /\ "start_time" \in scraping_summary.keys
    /\ Len(scraping_summary.channels) = chIdx - 1
    /\ \A i \in 1..Len(scraping_summary.channels) :
          /\ scraping_summary.channels[i].channel_name = extract_channel_name(CHANNELS[i])
          /\ scraping_summary.channels[i].status \in {"success", "failed"}
    /\ sPc = "done" =>
          /\ Len(scraping_summary.channels) = Len(CHANNELS)
          /\ {"start_time", "channels", "end_time"} \subseteq scraping_summary.keys

\* An entry is added only for the channel whose scrape_channel call is over, and
\* whatever that call and the save did, the loop goes on to the next channel.
SummaryStep ==
    /\ scraping_summary'.channels # scraping_summary.channels =>
          /\ sPc = "returned"
          /\ attempt >= 1
          /\ Len(scraping_summary'.channels) = Len(scraping_summary.channels) + 1
          /\ scraping_summary'.channels[chIdx].channel_name = CurChannel
    /\ sPc = "returned" => (sPc' = "loop" /\ chIdx' = chIdx + 1)
    /\ (sPc = "loop" /\ chIdx <= Len(CHANNELS)) => (sPc' = "entity" /\ chIdx' = chIdx)
    /\ sPc' = "done" => chIdx = Len(CHANNELS) + 1

\* C20: when scrape_all_channels returns, the run summary has exactly one entry per
\* configured channel, in configured order, each with status 'success' or 'failed',
\* and the start and end timestamps; an error on one channel never keeps the
\* channels after it from being attempted.
C20_OneEntryPerChannel == []SummaryShape /\ [][SummaryStep]_vars

\* C20 witness: the run returned after the first channel turned out private and
\* the save of the second failed, and the third channel was scraped in full.
C20_Witness ==
    /\ sPc = "done"
    /\ extract_channel_name(CHANNELS[1]) \in permErr
    /\ scraping_summary.channels[2].status = "failed"
    /\ scraping_summary.channels[3].status = "success"
    /\ scraping_summary.channels[3].messages_scraped = HistoryLen

\* The partition files of this run: one at most for each channel the loop is
\* through with, holding that channel's messages, each once.
FileShape ==
    /\ \A f \in lake :
          /\ \E i \in 1..(chIdx - 1) : f.channel = extract_channel_name(CHANNELS[i])
          /\ f.messages # <<>>
          /\ \A i \in 1..Len(f.messages) : f.messages[i].channel_name = f.channel
          /\ \A i, j \in 1..Len(f.messages) :
                 f.messages[i].message_id = f.messages[j].message_id => i = j
    /\ \A f, g \in lake : (f.channel = g.channel /\ f.date = g.date) => f = g

\* A step that touches the data lake: scrape_channel has returned for the channel,
\* the channel has no file of this run yet, and the file written holds what the
\* attempt that returned had kept.
WriteStep ==
    lake' # lake =>
        /\ sPc = "returned"
        /\ attempt = chFloods + 1
        /\ retval = kept
        /\ \A f \in lake : f.channel # CurChannel
        /\ lake' = lake \cup {[date |-> today, channel |-> CurChannel,
                                messages |-> kept]}

C25_RateLimitNeverAbsorbed ==
    /\ absorbed = 0
    /\ sPc \in {"entity", "iter", "returned"} => floods >= attempt - 1
    /\ (chIdx = 1 /\ sPc \in {"entity", "iter", "returned"}) => floods = attempt - 1

\* scrape_all_channels returns its summary, every scrape_channel call before it
\* having returned.
ScrapeReturns == <>(sPc = "done" /\ chIdx = Len(CHANNELS) + 1)

\* A step in which the source raises a rate-limit signal leads to the handler's
\* sleep, the sleep to one further attempt, and no attempt starts otherwise.
OneAttemptPerSignal ==
    /\ floods' # floods => (sPc' = "backoff" /\ attempt' = attempt)
    /\ sPc = "backoff" => (sPc' = "entity" /\ attempt' = attempt + 1)
    /\ attempt' # attempt => sPc \in {"backoff", "loop"}

\* C30: ingestion terminates: every channel's stream being finite and the source
\* signalling rate limits finitely many times, scrape_channel returns for each
\* channel and scrape_all_channels returns its summary; each rate-limit signal
\* starts exactly one further fetch attempt.
C30_IngestionTerminates == ScrapeReturns /\ [][OneAttemptPerSignal]_vars

(***************************************************************************)
(* Claims on the raw loader                                                *)
(***************************************************************************)
\* C5: while a load of a non-empty batch is under way over a table that held rows,
\* no reader on its own connection sees the table missing or empty: drop,
\* recreate and insert become visible as one unit.
C5_NoEmptyWindow ==
    (lPc # "idle" /\ atStart.tbl.rows # <<>> /\ load_json_files(lake) # <<>>)
        => readerView \notin {"missing", "empty"}

\* A row without what the database adds at load time (id, scraped_at).
RowData(r) ==
    [message_id |-> r.message_id, channel_name |-> r.channel_name,
     message_text |-> r.message_text, source_file |-> r.source_file]

TableData(t) == [i \in 1..Len(t.rows) |-> RowData(t.rows[i])]

\* The step that completes a successful load of the batch the successful load
\* right before it had loaded leaves the table with the rows it had then.
SameBatchSameRows ==
    (/\ lPc = "loaded" /\ lPc' = "idle" /\ loadResult' = "ok"
     /\ atStart.result = "ok" /\ atStart.batch = messages)
        => /\ Len(tbl'.rows) = Len(atStart.tbl.rows)
           /\ Len(tbl'.rows) = Len(messages)
           /\ TableData(tbl') = TableData(atStart.tbl)

\* C6: a destructive-idempotent load run twice in a row with the same input batch
\* leaves, after the second run, the row count and the rows (all that comes from
\* the batch) of the first run: nothing is duplicated or accumulated.
C6_LoadTwiceSameRows == [][SameBatchSameRows]_vars

\* C6 witness: a load of a two-file batch has just succeeded for the second time
\* in a row.
C6_Witness ==
    /\ reloaded
    /\ loads = 2
    /\ Len(tbl.rows) >= 2
    /\ \E i, j \in 1..Len(tbl.rows) : tbl.rows[i].source_file # tbl.rows[j].source_file

\* C7: after ingestion runs and a raw load, the raw message table holds at most
\* one row for each (channel_name, message_id).
C7_UniqueMessageId ==
    (lPc = "idle" /\ loadResult = "ok") =>
        \A i, j \in 1..Len(tbl.rows) :
            (/\ tbl.rows[i].channel_name = tbl.rows[j].channel_name
             /\ tbl.rows[i].message_id = tbl.rows[j].message_id) => i = j

RECURSIVE SelectInsertable(_)
SelectInsertable(msgs) ==
    IF msgs = <<>> THEN <<>>
    ELSE (IF Insertable(Head(msgs)) THEN <<Head(msgs)>> ELSE <<>>)
         \o SelectInsertable(Tail(msgs))

\* C8: when a single record of the batch cannot be inserted, the load still
\* succeeds and the table holds every other record of the batch.
C8_SkipMalformedRecord ==
    (lPc = "idle" /\ Len(messages) - Len(SelectInsertable(messages)) = 1)
        => /\ loadResult = "ok"
           /\ TableData(tbl) = SelectInsertable(messages)

\* The step with which a run of the loader that had connected ends in an error.
FailedLoadStep ==
    (lPc # "idle" /\ lPc' = "idle" /\ loadResult' = "raised") =>
        tbl'.rows = atStart.tbl.rows

\* C26: a raw load that fails after it has started (the bulk insert raises, say)
\* is all-or-nothing: the table afterwards holds exactly the rows it held before
\* the load began, never an empty or partly filled table.
C26_FailedLoadAllOrNothing == [][FailedLoadStep]_vars

(***************************************************************************)
(* Claims on the image categorisation                                      *)
(***************************************************************************)
\* What the claims say of a detection list, read off the list itself.
HasPerson(dets) == \E i \in 1..Len(dets) : dets[i].class = "person"

HasProduct(dets) ==
    \E i \in 1..Len(dets) : dets[i].class \in {"bottle", "cup", "bowl", "vase", "cell phone"}

DecisionTable(person, product) ==
    CASE person /\ product   -> "promotional"
      [] ~person /\ product  -> "product_display"
      [] person /\ ~product  -> "lifestyle"
      [] ~person /\ ~product -> "other"

\* The detection lists with the class sequence of dets and any confidences.
SameClasses(dets) ==
    {[i \in 1..Len(dets) |-> [class |-> dets[i].class, confidence |-> c[i]]] :
        c \in [1..Len(dets) -> Confs]}

\* C9: the category categorize_image returns is the decision table's entry for
\* (hasPerson, hasProduct), and every detection list with the same class sequence
\* and other confidences gets the same category.
C9_CategoryByMembership ==
    catOut # NoResult =>
        /\ catOut.category = DecisionTable(HasPerson(detections), HasProduct(detections))
        /\ \A d2 \in SameClasses(detections) :
               CategorizeWith(catImpl, d2).category = catOut.category

\* C9 witness: all four outcomes are produced, e.g. person and product together.
C9_Witness ==
    /\ catOut.category = "promotional"
    /\ Len(detections) = 2
    /\ detections[1].confidence # detections[2].confidence

\* C10: the max_conf categorize_image returns is 0 for the empty list and, for any
\* other list, the confidence of one of its boxes that no box exceeds.
C10_MaxConfidence ==
    catOut # NoResult =>
        IF detections = <<>>
        THEN catOut.max_conf = 0
        ELSE /\ \A i \in 1..Len(detections) : detections[i].confidence <= catOut.max_conf
             /\ \E i \in 1..Len(detections) : detections[i].confidence = catOut.max_conf

\* C10 witness: a list whose largest confidence is not its last box's.
C10_Witness ==
    /\ catOut # NoResult
    /\ Len(detections) = 2
    /\ detections[1].confidence > detections[2].confidence
    /\ catOut.max_conf = detections[1].confidence

(***************************************************************************)
(* Claims on the detection step                                            *)
(***************************************************************************)
\* The step of process_all_images that appends a result record, and the record.
AppendsResult == dPc = "ocr" /\ Len(results') = Len(results) + 1

Appended == results'[Len(results')]

\* The image the loop is at has its result when the loop moves on, and no image
\* has two.
OneResultPerImage ==
    /\ dPc \in {"image", "ocr"} => Len(results) = fileIdx - 1
    /\ dPc = "done" => Len(results) = Len(image_files)
    /\ \A i, j \in 1..Len(results) :
          (/\ results[i].channel_name = results[j].channel_name
           /\ results[i].message_id = results[j].message_id) => i = j

\* The step taken for an image on which detect_objects returned no box.
EmptyImageStep ==
    (dPc = "ocr" /\ curDets = <<>>) =>
        /\ results' = Append(results, Appended)
        /\ Appended.message_id = image_files[fileIdx].stem
        /\ Appended.channel_name = image_files[fileIdx].channel
        /\ Appended.category = "other"
        /\ Appended.num_detections = 0
        /\ Appended.max_confidence = 0
        /\ Appended.detected_objects = <<>>
        /\ Appended.ocr_text = <<>>

\* C11: an image on which the detection capability returns no boxes still gets
\* exactly one result record, with category 'other', 0 detections, maximal
\* confidence 0.0, no detected classes and an empty OCR text.
C11_EmptyImageResult == []OneResultPerImage /\ [][EmptyImageStep]_vars

\* C11 witness: process_all_images has returned two results, the first for an
\* image without boxes and the second for an image with boxes.
C11_Witness ==
    /\ dPc = "done"
    /\ Len(results) = 2
    /\ results[1].num_detections = 0
    /\ results[1].category = "other"
    /\ results[2].num_detections > 0

\* The class names in a joined detected_objects text, in order.
ClassNames(joined) == SelectSeq(joined, LAMBDA piece : piece # ", ")

\* The step that appends the record of an image: its classes are those of the
\* detection list, in the list's order.
ClassesInDetectionOrder ==
    AppendsResult =>
        /\ ClassNames(Appended.detected_objects)
              = [i \in 1..Len(curDets) |-> curDets[i].class]
        /\ Len(ClassNames(Appended.detected_objects)) = Appended.num_detections
        /\ Appended.num_detections = Len(curDets)
        /\ (/\ Len(curDets) = 2
            /\ curDets[1].class = "bottle"
            /\ curDets[2].class = "person") => Appended.category = "promotional"

\* C12: the detected classes of a result are the class names of the detection
\* list in detection order, duplicates kept, as many as num_detections; boxes
\* [bottle, person] give [bottle, person] and category promotional.
C12_ClassesInDetectionOrder == [][ClassesInDetectionOrder]_vars

\* C12 witness: results for boxes [person, bottle] (not in alphabetical order) and
\* for boxes [bottle, bottle] (a duplicate).
C12_Witness ==
    /\ Len(results) = 2
    /\ results[1].detected_objects = <<"person", ", ", "bottle">>
    /\ results[2].detected_objects = <<"bottle", ", ", "bottle">>

\* OCR gave nothing for the image: there is no OCR helper, or the libraries are
\* missing, or every region came back empty.
NoOcrText ==
    \/ ~HasOcrHelper
    \/ ~ocrLibs
    \/ \A i \in 1..Len(ocr_texts) : ocr_texts[i] = <<>>

OcrTextOfResult ==
    AppendsResult =>
        IF curDets = <<>> \/ NoOcrText
        THEN Appended.ocr_text = <<>>
        ELSE Appended.ocr_text = PyJoin(OcrSeparator, ocr_texts)

\* C13: the ocr_text of a result is empty when the image has no boxes or OCR is
\* unavailable or failed on every region, however many boxes there are;
\* otherwise it is the per-box texts joined with ' | '.
C13_OcrTextEmptyWithoutOcr == [][OcrTextOfResult]_vars

\* C14: extract_text_from_region never raises: it returns a trimmed text, and the
\* empty text when the libraries are missing, the image cannot be opened or the
\* OCR call fails.
C14_OcrNeverRaises ==
    ocrCall.called =>
        /\ ocrCall.out.kind = "return"
        /\ ocrCall.out.value = Strip(ocrCall.out.value)
        /\ (~ocrCall.libs \/ ~ocrCall.openOk \/ ~ocrCall.ocrOk)
              => ocrCall.out.value = <<>>
        /\ (ocrCall.libs /\ ocrCall.openOk /\ ocrCall.ocrOk)
              => ocrCall.out.value = Strip(ocrCall.reading)

\* C14 witness: the libraries are there and the image cannot be opened.
C14_Witness ==
    /\ ocrCall.called
    /\ ocrCall.libs
    /\ ~ocrCall.openOk
    /\ ocrCall.out = Return(<<>>)
    /\ dImpl = "ai_agent"

\* C28: when the detection capability raises on one image, that image degrades
\* to an empty result and processing continues: the exception never leaves
\* process_all_images, which returns a result for every image.
C28_DetectionFailureDegrades ==
    /\ dPc # "raised"
    /\ dPc = "done" => Len(results) = Len(image_files)

(***************************************************************************)
(* Claims on the text extraction                                           *)
(***************************************************************************)
\* What the claims say of a text, read off the text itself: a vocabulary term
\* occurs in it whatever the case of its letters; a price starts somewhere in it.
TermOccurs(term, text) ==
    \E s \in 0..(Len(text) - Len(term)) :
        \A j \in 1..Len(term) : LowerChar(text[s + j]) = term[j]

HasProductTerm(text) == \E k \in 1..Len(PRODUCT_TERMS) : TermOccurs(PRODUCT_TERMS[k], text)

HasPrice(text) == \E p \in 0..(Len(text) - 1) : MatchPriceAt(text, p) # -1

\* C15: a record is kept for a row if and only if a product term or a price was
\* found in its combined text; no kept record has both products and prices empty.
C15_EmittedIffFound ==
    tPc # "row" =>
        /\ (recs # <<>>) <=> (HasProductTerm(parsed.source_text)
                              \/ HasPrice(parsed.source_text))
        /\ recs # <<>> => recs = <<parsed>>
        /\ \A i \in 1..Len(recs) : recs[i].products # <<>> \/ recs[i].prices # <<>>

\* C15 witness: a row with a text in which nothing is found gives no record.
C15_Witness ==
    /\ tPc = "parsed"
    /\ Len(parsed.source_text) >= 3
    /\ parsed.products = <<>>
    /\ parsed.prices = <<>>
    /\ recs = <<>>

VocabularyIndex(term) == CHOOSE k \in 1..Len(PRODUCT_TERMS) : PRODUCT_TERMS[k] = term

\* C16: extract_product_terms returns the vocabulary terms that occur in the text
\* ignoring case, each once, in the order of the vocabulary list.
C16_TermsInVocabularyOrder ==
    tPc # "row" =>
        LET text  == parsed.source_text
            found == parsed.products
        IN  /\ \A i \in 1..Len(found) :
                   \E k \in 1..Len(PRODUCT_TERMS) : found[i] = PRODUCT_TERMS[k]
            /\ \A k \in 1..Len(PRODUCT_TERMS) :
                   TermOccurs(PRODUCT_TERMS[k], text)
                       <=> \E i \in 1..Len(found) : found[i] = PRODUCT_TERMS[k]
            /\ \A i, j \in 1..Len(found) :
                   i < j => VocabularyIndex(found[i]) < VocabularyIndex(found[j])

\* C16 witness: "Capsule tablet" with OCR text "tablet" gives [tablet, capsule].
C16_Witness ==
    /\ tPc = "parsed"
    /\ record.message_text = <<"C", "a", "p", "s", "u", "l", "e", " ",
                               "t", "a", "b", "l", "e", "t">>
    /\ record.ocr_text = <<"t", "a", "b", "l", "e", "t">>
    /\ parsed.products = <<PRODUCT_TERMS[1], PRODUCT_TERMS[2]>>

HasChar(token, ch) == \E i \in 1..Len(token) : token[i] = ch

AmountThenCode == <<"1", "0", "0", " ", "E", "T", "B">>

\* C17: an amount and the currency marker next to it come out as one token:
\* "100 ETB" standing between blanks gives the token "100 ETB", and a '$' sign
\* right before a number (at the start of the text or after a blank) gives a
\* token with the '$' sign in it.
C17_AmountWithCurrency ==
    tPc # "row" =>
        LET text   == parsed.source_text
            prices == parsed.prices
        IN  /\ \A s \in 0..(Len(text) - Len(AmountThenCode)) :
                   (/\ SubSeq(text, s + 1, s + Len(AmountThenCode)) = AmountThenCode
                    /\ s = 0 \/ IsSpace(text[s])
                    /\ s + Len(AmountThenCode) = Len(text)
                          \/ IsSpace(text[s + Len(AmountThenCode) + 1]))
                       => \E i \in 1..Len(prices) : prices[i] = AmountThenCode
            /\ \A p \in 1..(Len(text) - 1) :
                   (/\ text[p] = "$"
                    /\ IsDigit(text[p + 1])
                    /\ p = 1 \/ IsSpace(text[p - 1]))
                       => \E i \in 1..Len(prices) : HasChar(prices[i], "$")

TokenSet(tokens) == {tokens[i] : i \in 1..Len(tokens)}

\* C18: extract_prices run on the tokens it returned, put together, returns the
\* same set of tokens.
C18_PricesIdempotent ==
    tPc = "rerun" => TokenSet(rerun) = TokenSet(parsed.prices)

DetectionsStored ==
    [i \in 1..Len(det_tbl.rows) |->
        [f \in DOMAIN det_tbl.rows[i] \ {"loaded_at"} |-> det_tbl.rows[i][f]]]

PricesStored ==
    [i \in 1..Len(price_tbl.rows) |->
        [f \in DOMAIN price_tbl.rows[i] \ {"loaded_at"} |-> price_tbl.rows[i][f]]]

\* The rows the detection results of a run, and the extraction records made of
\* them, come to in their tables.
DetectionsOf(rs) ==
    [i \in 1..Len(rs) |->
        [f \in DOMAIN rs[i] \ {"ocr_text"} |-> rs[i][f]]]

ExtractionsOf(rs) ==
    LET records == process_yolo_ocr_file(CsvRows(rs))
    IN  [i \in 1..Len(records) |->
            [message_id   |-> records[i].message_id,
             channel_name |-> records[i].channel_name,
             products     |-> PyJoin(<<",">>, records[i].products),
             prices       |-> PyJoin(<<",">>, records[i].prices),
             source_text  |-> records[i].source_text]]

\* C27: a successful run of the job graph persists both enrichment outputs of
\* that run: the detection results in the detections table and the extraction
\* records made of them in the price-extractions table.
C27_BothOutputsPersisted ==
    stageResult = "ok" =>
        /\ det_tbl.exists
        /\ Len(DetectionsStored) = Len(produced)
        /\ PricesStored = ExtractionsOf(produced)

\* C29: after the enrichment stage of a run has completed, the detections table
\* holds exactly the detection results that run's detection step produced; when
\* the run produced none, nothing an earlier run left in the output file is
\* loaded.
C29_TableHoldsRunResults ==
    stageResult = "ok" => DetectionsStored = DetectionsOf(produced)

(***************************************************************************)
(* Claims on the threshold alerter                                         *)
(***************************************************************************)
\* The rows of the price-extractions table loaded within the last 24 hours.
LoadedLastDay == {i \in 1..Len(price_tbl.rows) : clock - price_tbl.rows[i].loaded_at <= Day}

\* What the last check did: nothing raised; when the count was read, a
\* notification went out exactly when it was at or above the threshold; when it
\* could not be read, nothing went out.
CheckOutcome ==
    alertCheck.called =>
        /\ ~alertCheck.outcome.raised
        /\ alertCheck.counted =>
               (alertCheck.outcome.alerted <=> alertCheck.count >= alertCheck.min_count)
        /\ ~alertCheck.counted => ~alertCheck.outcome.alerted
        /\ ~alertCheck.outcome.alerted => alertCheck.outcome.slack = "not_tried"

\* A check counts the rows loaded within the last 24 hours, and changes neither
\* the table nor the clock.
CheckStep ==
    alertCheck' # alertCheck =>
        /\ alertCheck'.counted => alertCheck'.count = Cardinality(LoadedLastDay)
        /\ alertCheck'.counted => price_tbl.exists
        /\ price_tbl' = price_tbl /\ clock' = clock

====
